---- MODULE Spec2Model ----
(***************************************************************************)
(* Wine-label inventory server: the zod validation / normalisation         *)
(* pipeline of shared/schema.ts, the Express route handlers of             *)
(* server/routes.ts and the Supabase gateway of server/storage.ts.         *)
(*                                                                         *)
(* JSON values are tagged records; a JS object (a request body, a parsed   *)
(* record, a database row) is a function from the keys it HAS to values,   *)
(* so "key absent", "key present and undefined" and "key present and null" *)
(* stay three different things, as they are in the code.                   *)
(***************************************************************************)
EXTENDS Integers, Sequences, FiniteSets, TLC

\* ------------------------------------------------------------- bounds
MaxStrLen == 3      \* longest input string of the pipeline specification
MaxBodyFields == 2  \* most keys of one request body
MaxRequests == 2    \* HTTP requests per behaviour
MaxRows == 2        \* data rows of one imported sheet
MaxImportRows == 4  \* data rows of one sheet of the import specification
MaxImports == 1     \* requests per behaviour of the import specification
MaxImageRequests == 4  \* requests per behaviour of the image specification
MaxDigits == 4      \* most digits of an input of the E-number specification

\* ------------------------------------------------------------- values
Null == [t |-> "null"]
Undefined == [t |-> "undefined"]
Bool(b) == [t |-> "boolean", b |-> b]
Num(n) == [t |-> "number", n |-> n]
Str(s) == [t |-> "string", s |-> s]
Arr(a) == [t |-> "array", a |-> a]

\* A string is the sequence of its characters.
Chars == {" ", "a"}

StringsUpTo(n) == UNION {[1..k -> Chars] : k \in 0..n}

\* obj[key] in JavaScript: undefined when the object has no such key.
Get(obj, key) == IF key \in DOMAIN obj THEN obj[key] ELSE Undefined

\* JavaScript truthiness, for the `a || b` chains and `!x` tests of the routes.
Truthy(v) ==
  CASE v.t = "undefined" -> FALSE
    [] v.t = "null" -> FALSE
    [] v.t = "boolean" -> v.b
    [] v.t = "number" -> v.n # 0
    [] v.t = "string" -> v.s # <<>>
    [] OTHER -> TRUE

\* ------------------------------------------------------------- strings
RECURSIVE TrimStart(_)
TrimStart(s) ==
  IF s = <<>> THEN s
  ELSE IF Head(s) = " " THEN TrimStart(Tail(s)) ELSE s

RECURSIVE TrimEnd(_)
TrimEnd(s) ==
  IF s = <<>> THEN s
  ELSE IF s[Len(s)] = " " THEN TrimEnd(SubSeq(s, 1, Len(s) - 1)) ELSE s

\* String.prototype.trim
Trim(s) == TrimEnd(TrimStart(s))

\* A faulty `str || null` that keeps the empty string.
OrNullKeepsEmpty(s) == Str(s)

\* str || null
OrNull(s) == IF s = <<>> THEN Null ELSE Str(s)

\* Number.prototype.toString for the non-negative integers used here.
Digit(d) == <<"0", "1", "2", "3", "4", "5", "6", "7", "8", "9">>[d + 1]

RECURSIVE NumToString(_)
NumToString(n) ==
  IF n < 10 THEN <<Digit(n)>> ELSE Append(NumToString(n \div 10), Digit(n % 10))

\* String.prototype.split(','): the pieces between the commas.
RECURSIVE SplitComma(_)
SplitComma(s) ==
  IF \A i \in 1..Len(s) : s[i] # "," THEN <<s>>
  ELSE LET k == CHOOSE i \in 1..Len(s) : s[i] = "," /\ \A j \in 1..(i - 1) : s[j] # ","
       IN <<SubSeq(s, 1, k - 1)>> \o SplitComma(SubSeq(s, k + 1, Len(s)))

\* ------------------------------------------------------------- zod
\* The outcome of one validator: a value, or the issues it raised.  An issue
\* carries its path below the validated value, zod's code and message.
Ok(v) == [ok |-> TRUE, v |-> v]
Issue(path, code, message) == [path |-> path, code |-> code, message |-> message]
Fail(issues) == [ok |-> FALSE, issues |-> issues]

\* zod's name of a value's type in an invalid_type message
TypeName(x) == x.t

\* invalid_type: "Required" when the value is undefined
InvalidType(expected, x) ==
  Fail(<<Issue(<<>>, "invalid_type",
               IF x = Undefined THEN "Required"
               ELSE "Expected " \o expected \o ", received " \o TypeName(x))>>)

\* A faulty stringOrNull without .nullable().
stringOrNullNotNullable(x) ==
  IF x.t # "string" THEN InvalidType("string", x) ELSE Ok(OrNull(Trim(x.s)))

\* z.string().trim().transform(str => str || null).nullable()
stringOrNull(x) ==
  IF x = Null THEN Ok(Null)
  ELSE IF x.t # "string" THEN InvalidType("string", x)
  ELSE Ok(OrNull(Trim(x.s)))

\* A faulty name validator without .min(1).
nameFieldNoMin(x) ==
  IF x.t # "string" THEN InvalidType("string", x) ELSE Ok(Str(Trim(x.s)))

\* z.string().trim().min(1, "Name is required")
nameField(x) ==
  IF x.t # "string" THEN InvalidType("string", x)
  ELSE IF Len(Trim(x.s)) < 1 THEN Fail(<<Issue(<<>>, "too_small", "Name is required")>>)
  ELSE Ok(Str(Trim(x.s)))

\* z.boolean()
booleanField(x) == IF x.t # "boolean" THEN InvalidType("boolean", x) ELSE Ok(x)

\* z.number().nullable()
numberNullable(x) ==
  IF x = Null THEN Ok(Null)
  ELSE IF x.t # "number" THEN InvalidType("number", x)
  ELSE Ok(x)

\* numberToStringOrNull: null for undefined, null and blank strings, else toString()
numberToStringOrNull(value) ==
  IF value = Undefined \/ value = Null THEN Null
  ELSE IF value.t = "string" THEN (IF Trim(value.s) = <<>> THEN Null ELSE value)
  ELSE Str(NumToString(value.n))

\* nutritionField: z.union([z.number(), z.string().trim()])
\*   .transform(numberToStringOrNull).nullable().  No schema uses it: kcal, kj,
\* fat and carbohydrates are declared stringOrNull.optional().
nutritionField(x) ==
  IF x = Null THEN Ok(Null)
  ELSE IF x.t = "number" THEN Ok(numberToStringOrNull(x))
  ELSE IF x.t = "string" THEN Ok(numberToStringOrNull(Str(Trim(x.s))))
  ELSE Fail(<<Issue(<<>>, "invalid_union", "Invalid input")>>)

\* z.array(z.string()): one issue per element that is not a string
stringArray(x) ==
  IF x.t # "array" THEN InvalidType("array", x)
  ELSE LET bad == {i \in 1..Len(x.a) : x.a[i].t # "string"}
           issueAt[i \in 0..Len(x.a)] ==
             IF i = 0 THEN <<>>
             ELSE issueAt[i - 1] \o
                  (IF i \in bad
                   THEN <<Issue(<<ToString(i - 1)>>, "invalid_type",
                                "Expected string, received " \o TypeName(x.a[i]))>>
                   ELSE <<>>)
       IN IF bad = {} THEN Ok(x) ELSE Fail(issueAt[Len(x.a)])

\* The field validators of the four object schemas, by the name used in the
\* shapes below.  .optional() lets undefined through untouched; .default(d)
\* replaces undefined by d before the inner validator runs.
ParseField(kind, x) ==
  CASE kind = "name" -> nameField(x)
    [] kind = "name.optional" -> IF x = Undefined THEN Ok(Undefined) ELSE nameField(x)
    [] kind = "stringOrNull.optional" ->
         IF x = Undefined THEN Ok(Undefined) ELSE stringOrNull(x)
    [] kind = "boolean.optional.default(false)" ->
         IF x = Undefined THEN Ok(Bool(FALSE)) ELSE booleanField(x)
    [] kind = "boolean.optional" -> IF x = Undefined THEN Ok(Undefined) ELSE booleanField(x)
    [] kind = "number.nullable.optional" ->
         IF x = Undefined THEN Ok(Undefined) ELSE numberNullable(x)
    [] kind = "array(string).optional.default([])" ->
         IF x = Undefined THEN Ok(Arr(<<>>)) ELSE stringArray(x)
    [] kind = "array(string).optional" ->
         IF x = Undefined THEN Ok(Undefined) ELSE stringArray(x)

Field(key, kind) == [key |-> key, kind |-> kind]

\* The optional text columns of a product, in schema order around the flags.
ProductTextBefore ==
  <<"brand", "net_volume", "vintage", "wine_type", "sugar_content", "appellation",
    "alcohol_content", "packaging_gases", "portion_size", "kcal", "kj", "fat",
    "carbohydrates">>

ProductFlags == <<"organic", "vegetarian", "vegan">>

ProductTextAfter ==
  <<"operator_type", "operator_name", "operator_address", "operator_info",
    "country_of_origin", "sku", "ean", "external_link", "redirect_link", "image_url">>

ShapeOf(keys, kind) == [i \in 1..Len(keys) |-> Field(keys[i], kind)]

\* A faulty product shape whose flags are .optional() without .default(false).
InsertProductShapeNoDefault ==
  <<Field("name", "name")>>
  \o ShapeOf(ProductTextBefore, "stringOrNull.optional")
  \o ShapeOf(ProductFlags, "boolean.optional")
  \o ShapeOf(ProductTextAfter, "stringOrNull.optional")
  \o <<Field("created_by", "number.nullable.optional")>>

\* insertProductSchema's z.object({...})
InsertProductShape ==
  <<Field("name", "name")>>
  \o ShapeOf(ProductTextBefore, "stringOrNull.optional")
  \o ShapeOf(ProductFlags, "boolean.optional.default(false)")
  \o ShapeOf(ProductTextAfter, "stringOrNull.optional")
  \o <<Field("created_by", "number.nullable.optional")>>

\* partialProductSchema's z.object({...}) in PUT /api/products/:id
PartialProductShape ==
  <<Field("name", "name.optional")>>
  \o ShapeOf(ProductTextBefore, "stringOrNull.optional")
  \o ShapeOf(ProductFlags, "boolean.optional")
  \o ShapeOf(ProductTextAfter, "stringOrNull.optional")
  \o <<Field("created_by", "number.nullable.optional")>>

\* A faulty ingredient shape whose allergens are .optional() without .default([]).
InsertIngredientShapeNoDefault ==
  <<Field("name", "name"),
    Field("category", "stringOrNull.optional"),
    Field("e_number", "stringOrNull.optional"),
    Field("allergens", "array(string).optional"),
    Field("details", "stringOrNull.optional"),
    Field("created_by", "number.nullable.optional")>>

\* insertIngredientSchema's z.object({...})
InsertIngredientShape ==
  <<Field("name", "name"),
    Field("category", "stringOrNull.optional"),
    Field("e_number", "stringOrNull.optional"),
    Field("allergens", "array(string).optional.default([])"),
    Field("details", "stringOrNull.optional"),
    Field("created_by", "number.nullable.optional")>>

\* partialIngredientSchema's z.object({...}) in PUT /api/ingredients/:id
PartialIngredientShape ==
  <<Field("name", "name.optional"),
    Field("category", "stringOrNull.optional"),
    Field("e_number", "stringOrNull.optional"),
    Field("allergens", "array(string).optional"),
    Field("details", "stringOrNull.optional"),
    Field("created_by", "number.nullable.optional")>>

\* Whether zod's object parser puts the key in its output: the parsed value is
\* not undefined, or the input object has the key (even with value undefined).
KeptKey(data, key, parsed) == parsed.v # Undefined \/ key \in DOMAIN data

\* Every key of the shape validated against data[key].
ParsedFields(shape, data) ==
  [i \in 1..Len(shape) |-> ParseField(shape[i].kind, Get(data, shape[i].key))]

\* The issues of one key, each put under the key.
IssuesUnder(key, issues) ==
  [j \in 1..Len(issues) |-> [issues[j] EXCEPT !.path = <<key>> \o @]]

\* The issues of the first i keys of the shape, in shape order.
\* A faulty, fail-fast collection: the issues of the first failing key only.
CollectFirstIssues(shape, parsed, i) ==
  IF \A j \in 1..i : parsed[j].ok THEN <<>>
  ELSE IssuesUnder(shape[CHOOSE j \in 1..i : ~parsed[j].ok /\ \A k \in 1..(j - 1) : parsed[k].ok].key,
                   parsed[CHOOSE j \in 1..i : ~parsed[j].ok /\ \A k \in 1..(j - 1) : parsed[k].ok].issues)

RECURSIVE CollectIssues(_, _, _)
CollectIssues(shape, parsed, i) ==
  IF i = 0 THEN <<>>
  ELSE CollectIssues(shape, parsed, i - 1)
       \o (IF parsed[i].ok THEN <<>> ELSE IssuesUnder(shape[i].key, parsed[i].issues))

\* The object zod builds from the parsed keys it keeps.
ParsedObject(shape, data, parsed) ==
  [k \in {shape[i].key : i \in {j \in 1..Len(shape) : KeptKey(data, shape[j].key, parsed[j])}}
     |-> parsed[CHOOSE i \in 1..Len(shape) : shape[i].key = k].v]

ZodResult(issues, shape, data, parsed) ==
  IF issues # <<>>
  THEN [success |-> FALSE, errors |-> issues]
  ELSE [success |-> TRUE, data |-> ParsedObject(shape, data, parsed)]

ZodCollect(shape, data, parsed) ==
  ZodResult(CollectIssues(shape, parsed, Len(shape)), shape, data, parsed)

\* z.object(shape).safeParse(data): every key of the shape is validated (keys the
\* shape does not name are stripped), the issues of all failing keys are
\* collected in shape order, each under its key.
ZodObject(shape, data) == ZodCollect(shape, data, ParsedFields(shape, data))

\* The .transform(data => Object.fromEntries(Object.entries(data).map(...))) that
\* closes each of the four schemas: a string is trimmed and '' becomes null, an
\* undefined value becomes null, anything else is kept.
TransformEntry(value) ==
  IF value.t = "string" THEN OrNull(Trim(value.s))
  ELSE IF value = Undefined THEN Null
  ELSE value

TransformEntries(data) == [k \in DOMAIN data |-> TransformEntry(data[k])]

\* schema.safeParse(data) for an object schema followed by the transform
Transformed(r) ==
  IF r.success THEN [success |-> TRUE, data |-> TransformEntries(r.data)] ELSE r

SafeParse(shape, data) == Transformed(ZodObject(shape, data))

insertProductSchema(data) == SafeParse(InsertProductShape, data)

partialProductSchema(data) == SafeParse(PartialProductShape, data)

insertIngredientSchema(data) == SafeParse(InsertIngredientShape, data)

partialIngredientSchema(data) == SafeParse(PartialIngredientShape, data)

\* err.path.join('.')
RECURSIVE JoinPath(_)
JoinPath(path) ==
  IF path = <<>> THEN ""
  ELSE IF Len(path) = 1 THEN path[1]
  ELSE path[1] \o "." \o JoinPath(Tail(path))

\* ------------------------------------------------------------- gateway
Range(seq) == {seq[i] : i \in 1..Len(seq)}

\* The columns a client may write: products and ingredients of shared/schema.ts
\* (id is the serial key; the timestamps are left out of the model).
ProductColumns ==
  {"name", "created_by"} \cup Range(ProductTextBefore) \cup Range(ProductFlags)
  \cup Range(ProductTextAfter)

IngredientColumns == {"name", "category", "e_number", "allergens", "details", "created_by"}

\* .default(false) on the three flags; every other column defaults to NULL.
ColumnDefault(column) == IF column \in Range(ProductFlags) THEN Bool(FALSE) ELSE Null

\* JSON.stringify of the record sent to the gateway drops undefined values.
JsonBody(record) == [k \in {c \in DOMAIN record : record[c] # Undefined} |-> record[k]]

\* Whether the database takes the record: every key is a column of the table,
\* and name (NOT NULL) is not set to null.
Accepts(columns, record) ==
  /\ DOMAIN JsonBody(record) \subseteq columns
  /\ Get(JsonBody(record), "name") # Null

\* An insert also needs a name: the column has no default.
AcceptsInsert(columns, record) ==
  Accepts(columns, record) /\ "name" \in DOMAIN JsonBody(record)

\* The row .insert(record).select().single() creates under a new id.
InsertedRow(columns, id, record) ==
  [c \in columns \cup {"id"} |->
     IF c = "id" THEN Num(id)
     ELSE IF c \in DOMAIN JsonBody(record) THEN record[c]
     ELSE ColumnDefault(c)]

\* A faulty update that replaces the row by the patch, defaults elsewhere.
UpdatedRowReplaced(row, patch) ==
  [c \in DOMAIN row |->
     IF c = "id" THEN row[c]
     ELSE IF c \in DOMAIN JsonBody(patch) THEN patch[c]
     ELSE ColumnDefault(c)]

\* The row .update(patch).eq('id', id) leaves: only the columns of the patch change.
UpdatedRow(row, patch) ==
  [c \in DOMAIN row |-> IF c \in DOMAIN JsonBody(patch) THEN patch[c] ELSE row[c]]

GatewayError == "upstream error"

\* ------------------------------------------------------------- state
VARIABLES
  products,         \* table products: id -> row
  ingredients,      \* table ingredients: id -> row
  nextProductId,    \* the serial of products.id
  nextIngredientId, \* the serial of ingredients.id
  uploads,          \* temporary files in the local uploads directory
  blobs,            \* keys of the blobs in the product-images bucket
  clock,            \* requests received so far (also Date.now())
  req,              \* the request handled last
  resp,             \* its response
  calls,            \* the gateway calls it made, in order
  nIn,              \* pipeline specification: the raw input record
  nSchema,          \* pipeline specification: the schema applied
  nOut,             \* pipeline specification: safeParse(nIn)
  nAgain,           \* pipeline specification: safeParse(nOut.data)
  nPc               \* pipeline specification: "input", "validated", "revalidated"

serverVars ==
  <<products, ingredients, nextProductId, nextIngredientId, uploads, blobs, clock,
    req, resp, calls>>

pipelineVars == <<nIn, nSchema, nOut, nAgain, nPc>>

vars == <<serverVars, pipelineVars>>

None == [t |-> "none"]

\* Before the first request: no request handled, no response sent.
NoRequest == [op |-> "none"]

\* A call on the gateway, and whether the gateway carried it out: ok is FALSE
\* when the remote service failed or refused the record, TRUE otherwise (a
\* lookup that finds no row is carried out).
Call(table, op, data) == [table |-> table, op |-> op, data |-> data, ok |-> TRUE]

Outcome(call, ok) == [call EXCEPT !.ok = ok]

Response(status, body) == [status |-> status, body |-> body]

NoResponse == Response(0, None)

ServerInit ==
  /\ products = <<>>
  /\ ingredients = <<>>
  /\ nextProductId = 1
  /\ nextIngredientId = 1
  /\ uploads = {}
  /\ blobs = {}
  /\ clock = 0
  /\ req = NoRequest
  /\ resp = NoResponse
  /\ calls = <<>>

PipelineIdle ==
  /\ nIn = None
  /\ nSchema = "none"
  /\ nOut = None
  /\ nAgain = None
  /\ nPc = "idle"

Init == ServerInit /\ PipelineIdle

\* ------------------------------------------------------------- requests
\* The bodies with at most MaxBodyFields keys, each key with one of its values.
Bodies(valuesOf) ==
  UNION {{b \in [d -> UNION {valuesOf[k] : k \in d}] : \A k \in d : b[k] \in valuesOf[k]} :
           d \in {e \in SUBSET DOMAIN valuesOf : Cardinality(e) <= MaxBodyFields}}

\* The values the product bodies of the server specification carry.
ProductValues ==
  [name |-> {Str(<<>>), Str(<<" ">>), Str(<<" ", "a", " ">>), Num(120)},
   kcal |-> {Null, Str(<<>>), Str(<<" ">>), Str(<<" ", "a", " ">>), Num(120)},
   sku |-> {Str(<<>>), Str(<<"b", " ">>)},
   organic |-> {Bool(TRUE), Bool(FALSE), Str(<<"b">>)}]

ProductBodies == Bodies(ProductValues)

\* The values the ingredient bodies of the server specification carry.
IngredientValues ==
  [name |-> {Str(<<>>), Str(<<" ">>), Str(<<" ", "a", " ">>), Num(120)},
   category |-> {Null, Str(<<" ">>), Str(<<"b", " ">>)},
   allergens |-> {Arr(<<>>), Arr(<<Str(<<" ", "a">>)>>), Str(<<"a", ",", " ", "b">>), Null}]

IngredientBodies == Bodies(IngredientValues)

\* details of a 400 from the product routes: errors.map(err => ({field, message, code}))
\* (received and expected, which only repeat the message, are left out)
ProductDetails(errors) ==
  Arr([i \in 1..Len(errors) |->
         [field |-> JoinPath(errors[i].path), message |-> errors[i].message,
          code |-> errors[i].code]])

\* details of a 400 from the ingredient routes: an object, not a list
IngredientDetails(errors) ==
  [t |-> "object",
   message |-> "Validation failed",
   errors |-> Arr([i \in 1..Len(errors) |->
                     [path |-> JoinPath(errors[i].path), message |-> errors[i].message]])]

\* A faulty create that hands the request body to the gateway before it
\* looks at the validation result.
PostProductStoredFirst(body, result, gwOk) ==
  /\ clock < MaxRequests
  /\ clock' = clock + 1
  /\ req' = [op |-> "POST /api/products", body |-> body]
  /\ calls' = <<Call("products", "insert", body)>>
  /\ products' = (nextProductId :> InsertedRow(ProductColumns, nextProductId, body))
                  @@ products
  /\ nextProductId' = nextProductId + 1
  /\ resp' = IF result.success THEN Response(201, products'[nextProductId])
             ELSE Response(400, [error |-> "Invalid product data",
                                 details |-> ProductDetails(result.errors)])
  /\ UNCHANGED <<ingredients, nextIngredientId, uploads, blobs, pipelineVars>>

\* POST /api/products once validationResult = insertProductSchema.safeParse(req.body)
PostProductParsed(body, result, gwOk) ==
  /\ clock < MaxRequests
  /\ clock' = clock + 1
  /\ req' = [op |-> "POST /api/products", body |-> body]
  /\ IF ~result.success
     THEN /\ resp' = Response(400, [error |-> "Invalid product data",
                                    details |-> ProductDetails(result.errors)])
          /\ calls' = <<>>
          /\ UNCHANGED <<products, nextProductId>>
     ELSE /\ calls' = <<Outcome(Call("products", "insert", result.data),
                                gwOk /\ AcceptsInsert(ProductColumns, result.data))>>
          /\ IF gwOk /\ AcceptsInsert(ProductColumns, result.data)
             THEN /\ products' =
                       (nextProductId :>
                          InsertedRow(ProductColumns, nextProductId, result.data))
                       @@ products
                  /\ nextProductId' = nextProductId + 1
                  /\ resp' = Response(201, products'[nextProductId])
             ELSE /\ resp' = Response(500, [error |-> "Failed to create product",
                                            details |-> GatewayError])
                  /\ UNCHANGED <<products, nextProductId>>
  /\ UNCHANGED <<ingredients, nextIngredientId, uploads, blobs, pipelineVars>>

\* POST /api/products
PostProduct(body, gwOk) == PostProductParsed(body, insertProductSchema(body), gwOk)

\* storage.updateProduct: .update(product).eq('id', id).select().single() throws
\* when the gateway fails, rejects the patch or finds no row with the id.
UpdateProductOk(id, patch, gwOk) ==
  gwOk /\ id \in DOMAIN products /\ Accepts(ProductColumns, patch)

\* PUT /api/products/:id once validationResult = partialProductSchema.safeParse(req.body)
PutProductParsed(id, body, result, gwOk) ==
  /\ clock < MaxRequests
  /\ clock' = clock + 1
  /\ req' = [op |-> "PUT /api/products/:id", id |-> id, body |-> body]
  /\ IF ~result.success
     THEN /\ resp' = Response(400, [error |-> "Invalid product data",
                                    details |-> ProductDetails(result.errors)])
          /\ calls' = <<>>
          /\ UNCHANGED products
     ELSE /\ calls' = <<Outcome(Call("products", "update", result.data),
                                gwOk /\ Accepts(ProductColumns, result.data))>>
          /\ IF UpdateProductOk(id, result.data, gwOk)
             THEN /\ products' = [products EXCEPT ![id] = UpdatedRow(@, result.data)]
                  /\ resp' = Response(200, products'[id])
             ELSE /\ resp' = Response(400, [error |-> "Invalid product data",
                                            details |-> GatewayError])
                  /\ UNCHANGED products
  /\ UNCHANGED <<nextProductId, ingredients, nextIngredientId, uploads, blobs,
                 pipelineVars>>

\* PUT /api/products/:id
PutProduct(id, body, gwOk) == PutProductParsed(id, body, partialProductSchema(body), gwOk)

\* a || b || ... : the first truthy operand, else the last one
RECURSIVE OrChain(_)
OrChain(values) ==
  IF Len(values) = 1 \/ Truthy(Head(values)) THEN Head(values) ELSE OrChain(Tail(values))

Lookup(row, headers) == OrChain([i \in 1..Len(headers) |-> Get(row, headers[i])])

\* errors.map(e => e.message).join(', ')
RECURSIVE JoinMessages(_)
JoinMessages(errors) ==
  IF Len(errors) = 1 THEN errors[1].message
  ELSE errors[1].message \o ", " \o JoinMessages(Tail(errors))

\* A faulty row number that leaves the header row out: `Row ${i + 1}: ...`
RowErrorOffByOne(k, reason) == "Row " \o ToString(k) \o ": " \o reason

\* `Row ${i + 2}: ...` for the row at 1-based position k (i = k - 1)
RowError(k, reason) == "Row " \o ToString(k + 1) \o ": " \o reason

\* productData of POST /api/products/import
ProductRowData(row) ==
  [name |-> Lookup(row, <<"name", "Name", "NAME">>),
   netVolume |-> Lookup(row, <<"netVolume", "Net Volume", "NET_VOLUME", "netvolume">>),
   vintage |-> Lookup(row, <<"vintage", "Vintage", "VINTAGE">>),
   wineType |-> Lookup(row, <<"wineType", "Wine Type", "Type", "type", "WINE_TYPE",
                              "winetype">>),
   sugarContent |-> Lookup(row, <<"sugarContent", "Sugar Content", "SUGAR_CONTENT",
                                  "sugarcontent">>),
   appellation |-> Lookup(row, <<"appellation", "Appellation", "APPELLATION">>),
   sku |-> Lookup(row, <<"sku", "SKU">>)]

\* ingredientData of POST /api/ingredients/import
\* s.split(',').map(a => a.trim())
TrimPieces(pieces) == Arr([i \in 1..Len(pieces) |-> Str(Trim(pieces[i]))])

\* typeof cell === 'string' ? cell.split(',').map(a => a.trim()) : (cell || [])
RowAllergens(cell) ==
  IF cell.t = "string" THEN TrimPieces(SplitComma(cell.s))
  ELSE IF Truthy(cell) THEN cell ELSE Arr(<<>>)

\* cell || null
CellOrNull(cell) == IF Truthy(cell) THEN cell ELSE Null

IngredientRowData(row) ==
  [name |-> Lookup(row, <<"name", "Name", "NAME">>),
   category |-> Lookup(row, <<"category", "Category", "CATEGORY">>),
   e_number |-> Lookup(row, <<"e_number", "E Number", "E_NUMBER", "enumber", "eNumber">>),
   allergens |-> RowAllergens(Lookup(row, <<"allergens", "Allergens", "ALLERGENS">>)),
   details |-> CellOrNull(Lookup(row, <<"details", "Details", "DETAILS">>))]

\* What an import has done so far: the table, its serial, the rows imported,
\* the error strings and the gateway calls.
ImportStart(table, nextId) ==
  [table |-> table, next |-> nextId, imported |-> <<>>, errors |-> <<>>, calls |-> <<>>]

ImportError(acc, k, reason) == [acc EXCEPT !.errors = Append(@, RowError(k, reason))]

\* await storage.createX(result.data) inside the row's try block: the row is
\* inserted, or the thrown error becomes the row's error string.
ImportInsert(acc, k, columns, tableName, record, gwOk) ==
  IF gwOk /\ AcceptsInsert(columns, record)
  THEN [acc EXCEPT !.table = (acc.next :> InsertedRow(columns, acc.next, record)) @@ @,
                   !.next = @ + 1,
                   !.imported = Append(@, InsertedRow(columns, acc.next, record)),
                   !.calls = Append(@, Call(tableName, "insert", record))]
  ELSE [acc EXCEPT !.errors = Append(@, RowError(k, GatewayError)),
                   !.calls = Append(@, Outcome(Call(tableName, "insert", record), FALSE))]

\* The body of the row loop once the row is mapped and parsed: the
\* required-name test, the schema's verdict, the insert.
ImportRow(acc, k, name, result, columns, tableName, gwOk) ==
  IF ~Truthy(name) THEN ImportError(acc, k, "Name is required")
  ELSE IF ~result.success THEN ImportError(acc, k, JoinMessages(result.errors))
  ELSE ImportInsert(acc, k, columns, tableName, result.data, gwOk)

ImportProductData(acc, data, k, gwOk) ==
  ImportRow(acc, k, data.name, insertProductSchema(data), ProductColumns, "products", gwOk)

ImportIngredientData(acc, data, k, gwOk) ==
  ImportRow(acc, k, data.name, insertIngredientSchema(data), IngredientColumns,
            "ingredients", gwOk)

\* One pass of the product row loop, for the row at 1-based position k.
ImportProductRow(acc, row, k, gwOk) == ImportProductData(acc, ProductRowData(row), k, gwOk)

\* One pass of the ingredient row loop.
ImportIngredientRow(acc, row, k, gwOk) ==
  ImportIngredientData(acc, IngredientRowData(row), k, gwOk)

\* A faulty row loop that gives up at the first row with an error.
RECURSIVE ImportProductRowsFatal(_, _, _, _)
ImportProductRowsFatal(acc, rows, k, failAt) ==
  IF k > Len(rows) \/ acc.errors # <<>> THEN acc
  ELSE ImportProductRowsFatal(ImportProductRow(acc, rows[k], k, failAt # k), rows, k + 1,
                              failAt)

\* for (let i = 0; i < data.length; i++) over the product rows from position k
\* on; failAt is the row whose insert the gateway fails (0: none).
RECURSIVE ImportProductRows(_, _, _, _)
ImportProductRows(acc, rows, k, failAt) ==
  IF k > Len(rows) THEN acc
  ELSE ImportProductRows(ImportProductRow(acc, rows[k], k, failAt # k), rows, k + 1, failAt)

RECURSIVE ImportIngredientRows(_, _, _, _)
ImportIngredientRows(acc, rows, k, failAt) ==
  IF k > Len(rows) THEN acc
  ELSE ImportIngredientRows(ImportIngredientRow(acc, rows[k], k, failAt # k), rows, k + 1,
                            failAt)

\* The sheets of the server specification: at most MaxRows data rows, each cell
\* present or not (sheet_to_json skips a row without any cell).
Sheets(cellsOf) ==
  LET rowSet == UNION {{r \in [d -> UNION {cellsOf[h] : h \in d}] :
                          \A h \in d : r[h] \in cellsOf[h]} :
                       d \in (SUBSET DOMAIN cellsOf) \ {{}}}
  IN UNION {[1..n -> rowSet] : n \in 0..MaxRows}

ProductCells == [Name |-> {Str(<<"b">>), Str(<<" ">>)}, SKU |-> {Str(<<" ", "a", " ">>)}]

IngredientCells ==
  [Name |-> {Str(<<"b">>)}, Allergens |-> {Str(<<"a", ",", " ", "b">>), Num(120)}]

\* POST /api/products/import once the row loop has run; file is "none",
\* "unreadable" or "sheet"
PostProductsImportDone(file, rows, out) ==
  /\ clock < MaxRequests
  /\ clock' = clock + 1
  /\ req' = [op |-> "POST /api/products/import", file |-> file, rows |-> rows]
  /\ IF file = "none"
     THEN /\ resp' = Response(400, [error |-> "No file uploaded"])
          /\ calls' = <<>>
          /\ UNCHANGED <<products, nextProductId>>
     ELSE IF file = "unreadable"
     THEN /\ resp' = Response(500, [error |-> "Failed to import products"])
          /\ calls' = <<>>
          /\ UNCHANGED <<products, nextProductId>>
     ELSE /\ products' = out.table
          /\ nextProductId' = out.next
          /\ calls' = out.calls
          /\ resp' = Response(200, [success |-> TRUE, imported |-> Len(out.imported),
                                    errors |-> out.errors, products |-> out.imported])
  /\ UNCHANGED <<ingredients, nextIngredientId, uploads, blobs, pipelineVars>>

\* POST /api/products/import
PostProductsImport(file, rows, failAt) ==
  PostProductsImportDone(
    file, rows, ImportProductRows(ImportStart(products, nextProductId), rows, 1, failAt))

\* POST /api/ingredients/import once the row loop has run
PostIngredientsImportDone(file, rows, out) ==
  /\ clock < MaxRequests
  /\ clock' = clock + 1
  /\ req' = [op |-> "POST /api/ingredients/import", file |-> file, rows |-> rows]
  /\ IF file = "none"
     THEN /\ resp' = Response(400, [error |-> "No file uploaded"])
          /\ calls' = <<>>
          /\ UNCHANGED <<ingredients, nextIngredientId>>
     ELSE IF file = "unreadable"
     THEN /\ resp' = Response(500, [error |-> "Failed to import ingredients"])
          /\ calls' = <<>>
          /\ UNCHANGED <<ingredients, nextIngredientId>>
     ELSE /\ ingredients' = out.table
          /\ nextIngredientId' = out.next
          /\ calls' = out.calls
          /\ resp' = Response(200, [success |-> TRUE, imported |-> Len(out.imported),
                                    errors |-> out.errors, ingredients |-> out.imported])
  /\ UNCHANGED <<products, nextProductId, uploads, blobs, pipelineVars>>

\* POST /api/ingredients/import
PostIngredientsImport(file, rows, failAt) ==
  PostIngredientsImportDone(
    file, rows,
    ImportIngredientRows(ImportStart(ingredients, nextIngredientId), rows, 1, failAt))

\* `products/${productId}/image_${Date.now()}${fileExt}`
BlobKey(id, now) == <<"products/", ToString(id), "/image_", ToString(now)>>

\* getPublicUrl(fileName)
PublicUrl(key) == Str(<<"product-images/">> \o key)

\* POST /api/products/:id/image.  multer has written the temporary file tmp
\* before the handler runs; storage.getProduct throws when the gateway fails or
\* .single() finds no row; storage.uploadProductImage unlinks the temporary
\* file in its finally block.
PostProductImageAs(id, hasFile, lookupOk, uploadOk, updateOk, tmp, key) ==
  /\ clock' = clock + 1
  /\ req' = [op |-> "POST /api/products/:id/image", id |-> id, file |-> hasFile]
  /\ IF ~hasFile
     THEN /\ resp' = Response(400, [error |-> "No image file provided"])
          /\ calls' = <<>>
          /\ UNCHANGED <<products, uploads, blobs>>
     ELSE IF ~(lookupOk /\ id \in DOMAIN products)
     THEN /\ resp' = Response(500, [error |-> GatewayError])
          /\ calls' = <<Outcome(Call("products", "select", id), lookupOk)>>
          /\ uploads' = uploads \cup {tmp}
          /\ UNCHANGED <<products, blobs>>
     ELSE IF ~uploadOk
     THEN /\ resp' = Response(500, [error |-> GatewayError])
          /\ calls' = <<Call("products", "select", id),
                        Outcome(Call("product-images", "upload", key), FALSE)>>
          /\ UNCHANGED <<products, uploads, blobs>>
     ELSE /\ blobs' = blobs \cup {key}
          /\ calls' = <<Call("products", "select", id),
                        Call("product-images", "upload", key),
                        Outcome(Call("products", "update", [image_url |-> PublicUrl(key)]),
                                updateOk)>>
          /\ UNCHANGED uploads
          /\ IF UpdateProductOk(id, [image_url |-> PublicUrl(key)], updateOk)
             THEN /\ products' = [products EXCEPT
                                    ![id] = UpdatedRow(@, [image_url |-> PublicUrl(key)])]
                  /\ resp' = Response(200, [success |-> TRUE, imageUrl |-> PublicUrl(key)])
             ELSE /\ resp' = Response(500, [error |-> GatewayError])
                  /\ UNCHANGED products
  /\ UNCHANGED <<nextProductId, ingredients, nextIngredientId, pipelineVars>>

HandlePostProductImage(id, hasFile, lookupOk, uploadOk, updateOk) ==
  PostProductImageAs(id, hasFile, lookupOk, uploadOk, updateOk, clock + 1,
                     BlobKey(id, clock + 1))

PostProductImage(id, hasFile, lookupOk, uploadOk, updateOk) ==
  clock < MaxRequests /\ HandlePostProductImage(id, hasFile, lookupOk, uploadOk, updateOk)

\* sampleProduct of POST /api/test/create-sample (each text kept in one piece)
SampleProduct ==
  [name |-> Str(<<"Sample Wine">>), brand |-> Str(<<"Test Brand">>),
   net_volume |-> Str(<<"750ml">>), vintage |-> Str(<<"2023">>),
   wine_type |-> Str(<<"Red">>), sugar_content |-> Str(<<"Dry">>),
   appellation |-> Str(<<"Test Region">>), alcohol_content |-> Str(<<"14%">>),
   sku |-> Str(<<"TEST-001">>), ean |-> Str(<<"1234567890">>)]

\* POST /api/test/create-sample: the record goes to the gateway unvalidated
HandlePostCreateSample(gwOk) ==
  /\ clock' = clock + 1
  /\ req' = [op |-> "POST /api/test/create-sample"]
  /\ calls' = <<Outcome(Call("products", "insert", SampleProduct),
                        gwOk /\ AcceptsInsert(ProductColumns, SampleProduct))>>
  /\ IF gwOk /\ AcceptsInsert(ProductColumns, SampleProduct)
     THEN /\ products' =
               (nextProductId :> InsertedRow(ProductColumns, nextProductId, SampleProduct))
               @@ products
          /\ nextProductId' = nextProductId + 1
          /\ resp' = Response(200, products'[nextProductId])
     ELSE /\ resp' = Response(500, [error |-> "Failed to create sample product",
                                    details |-> GatewayError])
          /\ UNCHANGED <<products, nextProductId>>
  /\ UNCHANGED <<ingredients, nextIngredientId, uploads, blobs, pipelineVars>>

PostCreateSample(gwOk) == clock < MaxRequests /\ HandlePostCreateSample(gwOk)

\* POST /api/ingredients once insertIngredientSchema.parse(req.body) has run
\* (a ZodError is caught and answered with 400)
PostIngredientParsed(body, result, gwOk) ==
  /\ clock < MaxRequests
  /\ clock' = clock + 1
  /\ req' = [op |-> "POST /api/ingredients", body |-> body]
  /\ IF ~result.success
     THEN /\ resp' = Response(400, [error |-> "Invalid ingredient data",
                                    details |-> IngredientDetails(result.errors)])
          /\ calls' = <<>>
          /\ UNCHANGED <<ingredients, nextIngredientId>>
     ELSE /\ calls' = <<Outcome(Call("ingredients", "insert", result.data),
                                gwOk /\ AcceptsInsert(IngredientColumns, result.data))>>
          /\ IF gwOk /\ AcceptsInsert(IngredientColumns, result.data)
             THEN /\ ingredients' =
                       (nextIngredientId :>
                          InsertedRow(IngredientColumns, nextIngredientId, result.data))
                       @@ ingredients
                  /\ nextIngredientId' = nextIngredientId + 1
                  /\ resp' = Response(201, ingredients'[nextIngredientId])
             ELSE /\ resp' = Response(500, [error |-> "Failed to create ingredient",
                                            details |-> [message |-> GatewayError]])
                  /\ UNCHANGED <<ingredients, nextIngredientId>>
  /\ UNCHANGED <<products, nextProductId, uploads, blobs, pipelineVars>>

\* POST /api/ingredients
PostIngredient(body, gwOk) == PostIngredientParsed(body, insertIngredientSchema(body), gwOk)

\* value?.trim() || null
TrimOrNull(value) == IF value.t = "string" THEN OrNull(Trim(value.s)) ELSE Null

\* Array.isArray(a) ? a.map(x => x.trim()) : []
TrimAll(value) ==
  IF value.t = "array"
  THEN Arr([i \in 1..Len(value.a) |-> Str(Trim(value.a[i].s))])
  ELSE Arr(<<>>)

\* updateData of storage.updateIngredient (updated_at, a timestamp, is left out).
\* ingredient.name.trim() throws a TypeError when name is undefined.
UpdateData(ingredient) ==
  [name |-> Str(Trim(ingredient["name"].s)),
   category |-> TrimOrNull(Get(ingredient, "category")),
   e_number |-> TrimOrNull(Get(ingredient, "e_number")),
   allergens |-> TrimAll(Get(ingredient, "allergens")),
   details |-> TrimOrNull(Get(ingredient, "details"))]

\* {...req.body, allergens: Array.isArray(req.body.allergens) ? req.body.allergens : []}
WithAllergens(body) ==
  [k \in DOMAIN body \cup {"allergens"} |->
     IF k # "allergens" THEN body[k]
     ELSE IF Get(body, "allergens").t = "array" THEN body[k] ELSE Arr(<<>>)]

\* storage.updateIngredient(id, validatedData): formatting the update throws
\* when name is missing; otherwise the formatted record is sent to the gateway.
UpdateIngredient(id, ingredient, gwOk) ==
  IF Get(ingredient, "name").t # "string"
  THEN /\ resp' = Response(500, [error |-> "Failed to update ingredient",
                                 details |-> [message |-> "TypeError"]])
       /\ calls' = <<Call("ingredients", "select", id)>>
       /\ UNCHANGED ingredients
  ELSE /\ calls' = <<Call("ingredients", "select", id),
                     Outcome(Call("ingredients", "update", UpdateData(ingredient)),
                             gwOk /\ Accepts(IngredientColumns, UpdateData(ingredient)))>>
       /\ IF gwOk /\ Accepts(IngredientColumns, UpdateData(ingredient))
          THEN /\ ingredients' =
                    [ingredients EXCEPT ![id] = UpdatedRow(@, UpdateData(ingredient))]
               /\ resp' = Response(200, ingredients'[id])
          ELSE /\ resp' = Response(500, [error |-> "Failed to update ingredient",
                                         details |-> [message |-> GatewayError]])
               /\ UNCHANGED ingredients

\* A faulty handler that looks at the validation's verdict before it looks
\* the ingredient up.
PutIngredientValidatedFirst(id, body, result, lookupOk, gwOk) ==
  /\ clock < MaxRequests
  /\ clock' = clock + 1
  /\ req' = [op |-> "PUT /api/ingredients/:id", id |-> id, body |-> body]
  /\ IF ~result.success
     THEN /\ resp' = Response(400, [error |-> "Invalid ingredient data",
                                    details |-> IngredientDetails(result.errors)])
          /\ calls' = <<>>
          /\ UNCHANGED ingredients
     ELSE IF ~(lookupOk /\ id \in DOMAIN ingredients)
     THEN /\ resp' = Response(404, [error |-> "Ingredient not found"])
          /\ calls' = <<Outcome(Call("ingredients", "select", id), lookupOk)>>
          /\ UNCHANGED ingredients
     ELSE UpdateIngredient(id, result.data, gwOk)
  /\ UNCHANGED <<nextIngredientId, products, nextProductId, uploads, blobs, pipelineVars>>

\* PUT /api/ingredients/:id once the body is parsed.  storage.getIngredient
\* drops the gateway's error, so a failed lookup reads as "not found"; the
\* lookup comes before the validation's verdict is looked at.
PutIngredientParsed(id, body, result, lookupOk, gwOk) ==
  /\ clock < MaxRequests
  /\ clock' = clock + 1
  /\ req' = [op |-> "PUT /api/ingredients/:id", id |-> id, body |-> body]
  /\ IF ~(lookupOk /\ id \in DOMAIN ingredients)
     THEN /\ resp' = Response(404, [error |-> "Ingredient not found"])
          /\ calls' = <<Outcome(Call("ingredients", "select", id), lookupOk)>>
          /\ UNCHANGED ingredients
     ELSE IF ~result.success
     THEN /\ resp' = Response(400, [error |-> "Invalid ingredient data",
                                    details |-> IngredientDetails(result.errors)])
          /\ calls' = <<Call("ingredients", "select", id)>>
          /\ UNCHANGED ingredients
     ELSE UpdateIngredient(id, result.data, gwOk)
  /\ UNCHANGED <<nextIngredientId, products, nextProductId, uploads, blobs, pipelineVars>>

\* PUT /api/ingredients/:id
PutIngredient(id, body, lookupOk, gwOk) ==
  PutIngredientParsed(id, body, partialIngredientSchema(WithAllergens(body)), lookupOk, gwOk)

\* ------------------------------------------------------------- reads, deletes
\* The rows .select().order('name') returns, as a sequence over the ids in
\* order: the order is the database's collation of the names, which the code
\* does not fix, so every order of the ids is allowed for.
RowsInOrder(table, order) == [i \in 1..Len(order) |-> table[order[i]]]

Orders(table) ==
  {o \in [1..Cardinality(DOMAIN table) -> DOMAIN table] :
     \A i, j \in DOMAIN o : i # j => o[i] # o[j]}

\* The table without the row .delete().eq('id', id) matches, if any.
DeletedFrom(table, id) == [k \in DOMAIN table \ {id} |-> table[k]]

\* GET /api/products: storage.getProducts throws the gateway's error
GetProducts(order, gwOk) ==
  /\ clock < MaxRequests
  /\ clock' = clock + 1
  /\ req' = [op |-> "GET /api/products"]
  /\ calls' = <<Outcome(Call("products", "list", 0), gwOk)>>
  /\ resp' = IF gwOk THEN Response(200, RowsInOrder(products, order))
             ELSE Response(500, [error |-> "Failed to fetch products",
                                 details |-> GatewayError])
  /\ UNCHANGED <<products, nextProductId, ingredients, nextIngredientId, uploads, blobs,
                 pipelineVars>>

\* GET /api/products/:id: storage.getProduct throws when the gateway fails and
\* when .single() finds no row
GetProduct(id, gwOk) ==
  /\ clock < MaxRequests
  /\ clock' = clock + 1
  /\ req' = [op |-> "GET /api/products/:id", id |-> id]
  /\ calls' = <<Outcome(Call("products", "select", id), gwOk)>>
  /\ resp' = IF gwOk /\ id \in DOMAIN products THEN Response(200, products[id])
             ELSE Response(500, [error |-> "Failed to fetch product",
                                 details |-> GatewayError])
  /\ UNCHANGED <<products, nextProductId, ingredients, nextIngredientId, uploads, blobs,
                 pipelineVars>>

\* DELETE /api/products/:id: storage.deleteProduct returns !error, and a
\* delete that matches no row is no error
HandleDeleteProduct(id, gwOk) ==
  /\ clock' = clock + 1
  /\ req' = [op |-> "DELETE /api/products/:id", id |-> id]
  /\ calls' = <<Outcome(Call("products", "delete", id), gwOk)>>
  /\ IF gwOk
     THEN /\ products' = DeletedFrom(products, id)
          /\ resp' = Response(204, None)
     ELSE /\ resp' = Response(404, [error |-> "Product not found"])
          /\ UNCHANGED products
  /\ UNCHANGED <<nextProductId, ingredients, nextIngredientId, uploads, blobs,
                 pipelineVars>>

DeleteProduct(id, gwOk) == clock < MaxRequests /\ HandleDeleteProduct(id, gwOk)

\* DELETE /api/products/:id/image: the handler reads product.imageUrl and
\* patches {imageUrl: null}; the column is image_url.
HandleDeleteProductImage(id, lookupOk, updateOk) ==
  /\ clock' = clock + 1
  /\ req' = [op |-> "DELETE /api/products/:id/image", id |-> id]
  /\ IF ~(lookupOk /\ id \in DOMAIN products)
     THEN /\ resp' = Response(500, [error |-> "Failed to delete image"])
          /\ calls' = <<Outcome(Call("products", "select", id), lookupOk)>>
          /\ UNCHANGED products
     ELSE /\ calls' = <<Call("products", "select", id),
                        Outcome(Call("products", "update", [imageUrl |-> Null]),
                                updateOk /\ Accepts(ProductColumns, [imageUrl |-> Null]))>>
          /\ IF UpdateProductOk(id, [imageUrl |-> Null], updateOk)
             THEN /\ products' = [products EXCEPT ![id] = UpdatedRow(@, [imageUrl |-> Null])]
                  /\ resp' = Response(200, [message |-> "Image deleted successfully"])
             ELSE /\ resp' = Response(500, [error |-> "Failed to delete image"])
                  /\ UNCHANGED products
  /\ UNCHANGED <<nextProductId, ingredients, nextIngredientId, uploads, blobs,
                 pipelineVars>>

DeleteProductImage(id, lookupOk, updateOk) == clock < MaxRequests /\ HandleDeleteProductImage(id, lookupOk, updateOk)

\* GET /api/ingredients: storage.getIngredients drops the gateway's error and
\* returns data || []
GetIngredients(order, gwOk) ==
  /\ clock < MaxRequests
  /\ clock' = clock + 1
  /\ req' = [op |-> "GET /api/ingredients"]
  /\ calls' = <<Outcome(Call("ingredients", "list", 0), gwOk)>>
  /\ resp' = Response(200, IF gwOk THEN RowsInOrder(ingredients, order) ELSE <<>>)
  /\ UNCHANGED <<products, nextProductId, ingredients, nextIngredientId, uploads, blobs,
                 pipelineVars>>

\* GET /api/ingredients/:id: storage.getIngredient drops the gateway's error
GetIngredient(id, gwOk) ==
  /\ clock < MaxRequests
  /\ clock' = clock + 1
  /\ req' = [op |-> "GET /api/ingredients/:id", id |-> id]
  /\ calls' = <<Outcome(Call("ingredients", "select", id), gwOk)>>
  /\ resp' = IF gwOk /\ id \in DOMAIN ingredients THEN Response(200, ingredients[id])
             ELSE Response(404, [error |-> "Ingredient not found"])
  /\ UNCHANGED <<products, nextProductId, ingredients, nextIngredientId, uploads, blobs,
                 pipelineVars>>

\* DELETE /api/ingredients/:id
DeleteIngredient(id, gwOk) ==
  /\ clock < MaxRequests
  /\ clock' = clock + 1
  /\ req' = [op |-> "DELETE /api/ingredients/:id", id |-> id]
  /\ calls' = <<Outcome(Call("ingredients", "delete", id), gwOk)>>
  /\ IF gwOk
     THEN /\ ingredients' = DeletedFrom(ingredients, id)
          /\ resp' = Response(204, None)
     ELSE /\ resp' = Response(404, [error |-> "Ingredient not found"])
          /\ UNCHANGED ingredients
  /\ UNCHANGED <<products, nextProductId, nextIngredientId, uploads, blobs,
                 pipelineVars>>

\* ------------------------------------------------------------- export
\* Array.prototype.join(', ')
RECURSIVE JoinComma(_)
JoinComma(items) ==
  IF items = <<>> THEN <<>>
  ELSE IF Len(items) = 1 THEN items[1].s
  ELSE items[1].s \o <<",", " ">> \o JoinComma(Tail(items))

\* The property of the row that exportData reads into each column of the
\* products sheet.
ProductExportField ==
  [Name |-> "name", Vintage |-> "vintage", Type |-> "wineType",
   Appellation |-> "appellation", SKU |-> "sku"]
  @@ ("Net Volume" :> "netVolume") @@ ("Sugar Content" :> "sugarContent")

\* exportData of GET /api/products/export, for one product
ExportedProduct(product) ==
  [h \in DOMAIN ProductExportField |-> Get(product, ProductExportField[h])]

\* Array.isArray(allergens) ? allergens.join(', ') : allergens
ExportedAllergens(allergens) ==
  IF allergens.t = "array" THEN Str(JoinComma(allergens.a)) ELSE allergens

\* exportData of GET /api/ingredients/export, for one ingredient
ExportedIngredient(ingredient) ==
  [Name |-> Get(ingredient, "name"),
   Category |-> Get(ingredient, "category"),
   Allergens |-> ExportedAllergens(Get(ingredient, "allergens")),
   Details |-> Get(ingredient, "details")]
  @@ ("E Number" :> Get(ingredient, "eNumber"))

\* A row of the sheet json_to_sheet writes: a null or undefined value leaves
\* its cell empty, and an empty cell is no key of the row read back.
SheetRow(record) ==
  [h \in {k \in DOMAIN record : record[k] # Null /\ record[k] # Undefined} |-> record[h]]

\* GET /api/products/export: the rows of the sheet that is sent
GetProductsExport(order, gwOk) ==
  /\ clock < MaxRequests
  /\ clock' = clock + 1
  /\ req' = [op |-> "GET /api/products/export", ids |-> order]
  /\ calls' = <<Outcome(Call("products", "list", 0), gwOk)>>
  /\ resp' = IF gwOk
             THEN Response(200, [i \in 1..Len(order) |->
                                   SheetRow(ExportedProduct(products[order[i]]))])
             ELSE Response(500, [error |-> "Failed to export products",
                                 details |-> GatewayError])
  /\ UNCHANGED <<products, nextProductId, ingredients, nextIngredientId, uploads, blobs,
                 pipelineVars>>

\* GET /api/ingredients/export: getIngredients hides a gateway failure, so the
\* sheet is then empty
GetIngredientsExport(order, gwOk) ==
  /\ clock < MaxRequests
  /\ clock' = clock + 1
  /\ req' = [op |-> "GET /api/ingredients/export", ids |-> order]
  /\ calls' = <<Outcome(Call("ingredients", "list", 0), gwOk)>>
  /\ resp' = Response(200, IF gwOk
                           THEN [i \in 1..Len(order) |->
                                   SheetRow(ExportedIngredient(ingredients[order[i]]))]
                           ELSE <<>>)
  /\ UNCHANGED <<products, nextProductId, ingredients, nextIngredientId, uploads, blobs,
                 pipelineVars>>

\* ------------------------------------------------------------- server
Files == {"none", "unreadable", "sheet"}

Next ==
  \/ \E body \in ProductBodies, gwOk \in BOOLEAN : PostProduct(body, gwOk)
  \/ \E id \in 1..nextProductId, body \in ProductBodies, gwOk \in BOOLEAN :
       PutProduct(id, body, gwOk)
  \/ \E file \in Files, rows \in Sheets(ProductCells), failAt \in 0..MaxRows :
       /\ (file # "sheet" => rows = <<>>)
       /\ failAt <= Len(rows)
       /\ PostProductsImport(file, rows, failAt)
  \/ \E id \in 1..nextProductId, hasFile, lookupOk, uploadOk, updateOk \in BOOLEAN :
       PostProductImage(id, hasFile, lookupOk, uploadOk, updateOk)
  \/ \E gwOk \in BOOLEAN : PostCreateSample(gwOk)
  \/ \E body \in IngredientBodies, gwOk \in BOOLEAN : PostIngredient(body, gwOk)
  \/ \E id \in 1..nextIngredientId, body \in IngredientBodies, lookupOk, gwOk \in BOOLEAN :
       PutIngredient(id, body, lookupOk, gwOk)
  \/ \E file \in Files, rows \in Sheets(IngredientCells), failAt \in 0..MaxRows :
       /\ (file # "sheet" => rows = <<>>)
       /\ failAt <= Len(rows)
       /\ PostIngredientsImport(file, rows, failAt)
  \/ \E order \in Orders(products), gwOk \in BOOLEAN : GetProducts(order, gwOk)
  \/ \E id \in 1..nextProductId, gwOk \in BOOLEAN : GetProduct(id, gwOk)
  \/ \E id \in 1..nextProductId, gwOk \in BOOLEAN : DeleteProduct(id, gwOk)
  \/ \E id \in 1..nextProductId, lookupOk, updateOk \in BOOLEAN :
       DeleteProductImage(id, lookupOk, updateOk)
  \/ \E order \in Orders(ingredients), gwOk \in BOOLEAN : GetIngredients(order, gwOk)
  \/ \E id \in 1..nextIngredientId, gwOk \in BOOLEAN : GetIngredient(id, gwOk)
  \/ \E id \in 1..nextIngredientId, gwOk \in BOOLEAN : DeleteIngredient(id, gwOk)
  \/ \E order \in Orders(products), gwOk \in BOOLEAN : GetProductsExport(order, gwOk)
  \/ \E order \in Orders(ingredients), gwOk \in BOOLEAN : GetIngredientsExport(order, gwOk)

Spec == Init /\ [][Next]_vars

\* ------------------------------------------------------------- import
\* The two bulk imports on their own, over longer sheets: each row is without
\* a name, with a name only, or with every column the adapter maps.
\* Each cell of a full row holds its own header, so no two columns agree.
FullProductRow ==
  [h \in {"Name", "Net Volume", "Vintage", "Type", "Sugar Content", "Appellation",
          "SKU"} |-> Str(<<h>>)]

ProductRowKinds ==
  {[SKU |-> Str(<<"s">>)], [Name |-> Str(<<"b">>)], [Name |-> Str(<<" ">>)], FullProductRow}

FullIngredientRow ==
  [h \in {"Name", "Category", "E Number", "Details"} |-> Str(<<h>>)]
  @@ [Allergens |-> Str(<<"a", ",", " ", "b">>)]

IngredientRowKinds ==
  {[Category |-> Str(<<"c">>)], [Name |-> Str(<<"b">>)],
   [Name |-> Str(<<"b">>), Allergens |-> Num(120)], FullIngredientRow}

ImportSheets(rowKinds) == UNION {[1..n -> rowKinds] : n \in 0..MaxImportRows}

ImportNext ==
  \/ \E file \in Files, rows \in ImportSheets(ProductRowKinds), failAt \in 0..MaxImportRows :
       /\ clock < MaxImports
       /\ (file # "sheet" => rows = <<>>)
       /\ failAt <= Len(rows)
       /\ PostProductsImport(file, rows, failAt)
  \/ \E file \in Files, rows \in ImportSheets(IngredientRowKinds),
         failAt \in 0..MaxImportRows :
       /\ clock < MaxImports
       /\ (file # "sheet" => rows = <<>>)
       /\ failAt <= Len(rows)
       /\ PostIngredientsImport(file, rows, failAt)

SpecImport == Init /\ [][ImportNext]_vars

\* ------------------------------------------------------------- images
\* The requests that touch a product's image, over longer runs: a product is
\* created, images are uploaded and removed, products are deleted.
ImageNext ==
  \/ \E gwOk \in BOOLEAN : clock < MaxImageRequests /\ HandlePostCreateSample(gwOk)
  \/ \E id \in 1..nextProductId, hasFile, lookupOk, uploadOk, updateOk \in BOOLEAN :
       /\ clock < MaxImageRequests
       /\ HandlePostProductImage(id, hasFile, lookupOk, uploadOk, updateOk)
  \/ \E id \in 1..nextProductId, lookupOk, updateOk \in BOOLEAN :
       clock < MaxImageRequests /\ HandleDeleteProductImage(id, lookupOk, updateOk)
  \/ \E id \in 1..nextProductId, gwOk \in BOOLEAN :
       clock < MaxImageRequests /\ HandleDeleteProduct(id, gwOk)

SpecImage == Init /\ [][ImageNext]_vars

\* ------------------------------------------------------------- concurrency
\* Two update requests for the same record, handled at the same time.  Here
\* req and resp hold one entry per client, req[c].pc is the place the handler
\* of client c has reached ("received", "found", "done"), and calls is the
\* log of the gateway calls of both handlers in the order the gateway took
\* them.  A handler gives way to the other one at each await.
Clients == {1, 2}

\* The values the bodies of the concurrent updates carry.
UpdateValues ==
  [product |-> [sku |-> {Str(<<"a">>), Str(<<"b", " ">>)},
                brand |-> {Str(<<"a">>)},
                vintage |-> {Str(<<"a">>), Null}],
   ingredient |-> [name |-> {Str(<<"a">>)},
                   category |-> {Str(<<"a">>), Str(<<"b", " ">>)},
                   details |-> {Str(<<"a">>), Null}]]

UpdateRoute == [product |-> "PUT /api/products/:id", ingredient |-> "PUT /api/ingredients/:id"]

\* Both tables hold one record, created earlier.
ConcurrentInit ==
  /\ products = (1 :> InsertedRow(ProductColumns, 1, SampleProduct))
  /\ ingredients =
       (1 :> InsertedRow(IngredientColumns, 1,
                         insertIngredientSchema([name |-> Str(<<"b">>)]).data))
  /\ nextProductId = 2
  /\ nextIngredientId = 2
  /\ uploads = {}
  /\ blobs = {}
  /\ clock = 0
  /\ \E table \in DOMAIN UpdateValues :
       \E first, second \in Bodies(UpdateValues[table]) \ {<<>>} :
         /\ DOMAIN first \cap DOMAIN second = {}
         /\ req = [c \in Clients |->
                     [op |-> UpdateRoute[table], id |-> 1, pc |-> "received",
                      body |-> IF c = 1 THEN first ELSE second]]
  /\ resp = [c \in Clients |-> NoResponse]
  /\ calls = <<>>
  /\ PipelineIdle

\* The handler of client c ends with the response.
Respond(c, response) ==
  /\ req' = [req EXCEPT ![c].pc = "done"]
  /\ resp' = [resp EXCEPT ![c] = response]

\* PUT /api/products/:id of client c, from the request to the response: the
\* validation runs in the handler, the one await is storage.updateProduct,
\* whose UPDATE of the supplied columns the database carries out in one piece.
ProductUpdate(c, result) ==
  /\ req[c].op = "PUT /api/products/:id"
  /\ req[c].pc = "received"
  /\ IF ~result.success
     THEN /\ Respond(c, Response(400, [error |-> "Invalid product data",
                                       details |-> ProductDetails(result.errors)]))
          /\ UNCHANGED <<products, calls>>
     ELSE /\ calls' = Append(calls, Outcome(Call("products", "update", result.data),
                                            Accepts(ProductColumns, result.data)))
          /\ IF UpdateProductOk(req[c].id, result.data, TRUE)
             THEN /\ products' = [products EXCEPT ![req[c].id] = UpdatedRow(@, result.data)]
                  /\ Respond(c, Response(200, products'[req[c].id]))
             ELSE /\ Respond(c, Response(400, [error |-> "Invalid product data",
                                               details |-> GatewayError]))
                  /\ UNCHANGED products
  /\ UNCHANGED <<ingredients, nextProductId, nextIngredientId, uploads, blobs, clock,
                 pipelineVars>>

\* PUT /api/ingredients/:id of client c up to its first await:
\* existingIngredient = await storage.getIngredient(id)
IngredientLookup(c) ==
  /\ req[c].op = "PUT /api/ingredients/:id"
  /\ req[c].pc = "received"
  /\ calls' = Append(calls, Call("ingredients", "select", req[c].id))
  /\ IF req[c].id \in DOMAIN ingredients
     THEN /\ req' = [req EXCEPT ![c].pc = "found"]
          /\ UNCHANGED resp
     ELSE Respond(c, Response(404, [error |-> "Ingredient not found"]))
  /\ UNCHANGED <<products, ingredients, nextProductId, nextIngredientId, uploads, blobs,
                 clock, pipelineVars>>

\* PUT /api/ingredients/:id of client c from the lookup's answer on: the
\* validation, then await storage.updateIngredient(id, validationResult.data),
\* which writes every column of updateData.
IngredientUpdate(c, result) ==
  /\ req[c].op = "PUT /api/ingredients/:id"
  /\ req[c].pc = "found"
  /\ IF ~result.success
     THEN /\ Respond(c, Response(400, [error |-> "Invalid ingredient data",
                                       details |-> IngredientDetails(result.errors)]))
          /\ UNCHANGED <<ingredients, calls>>
     ELSE IF Get(result.data, "name").t # "string"
     THEN /\ Respond(c, Response(500, [error |-> "Failed to update ingredient",
                                       details |-> [message |-> "TypeError"]]))
          /\ UNCHANGED <<ingredients, calls>>
     ELSE /\ calls' = Append(calls,
                             Outcome(Call("ingredients", "update", UpdateData(result.data)),
                                     Accepts(IngredientColumns, UpdateData(result.data))))
          /\ IF req[c].id \in DOMAIN ingredients
                /\ Accepts(IngredientColumns, UpdateData(result.data))
             THEN /\ ingredients' = [ingredients EXCEPT
                                       ![req[c].id] = UpdatedRow(@, UpdateData(result.data))]
                  /\ Respond(c, Response(200, ingredients'[req[c].id]))
             ELSE /\ Respond(c, Response(500, [error |-> "Failed to update ingredient",
                                               details |-> [message |-> GatewayError]]))
                  /\ UNCHANGED ingredients
  /\ UNCHANGED <<products, nextProductId, nextIngredientId, uploads, blobs, clock,
                 pipelineVars>>

ConcurrentNext ==
  \/ \E c \in Clients : ProductUpdate(c, partialProductSchema(req[c].body))
  \/ \E c \in Clients : IngredientLookup(c)
  \/ \E c \in Clients :
       IngredientUpdate(c, partialIngredientSchema(WithAllergens(req[c].body)))

SpecConcurrent == ConcurrentInit /\ [][ConcurrentNext]_vars

\* ------------------------------------------------------------- client
\* A faulty helper that keeps the white space around a non-blank string.
transformEmptyToNullUntrimmed(value) ==
  IF value = Undefined \/ value = Null \/ Trim(value.s) = <<>> THEN Null ELSE value

\* transformEmptyToNull of the product form: null for undefined, null and
\* blank strings, value.trim() otherwise.
transformEmptyToNull(value) ==
  IF value = Undefined \/ value = Null \/ Trim(value.s) = <<>> THEN Null
  ELSE Str(Trim(value.s))

\* ------------------------------------------------------------- E numbers
\* Faulty ranges without the gap between 799 and 900.
E_NUMBER_RANGES_NoGap ==
  <<[key |-> "colors", start |-> 100, end |-> 199],
    [key |-> "preservatives", start |-> 200, end |-> 299],
    [key |-> "antioxidants", start |-> 300, end |-> 399],
    [key |-> "emulsifiers", start |-> 400, end |-> 499],
    [key |-> "stabilizers", start |-> 500, end |-> 599],
    [key |-> "flavorEnhancers", start |-> 600, end |-> 699],
    [key |-> "antibiotics", start |-> 700, end |-> 799],
    [key |-> "miscellaneous", start |-> 800, end |-> 999],
    [key |-> "additionalChemicals", start |-> 1000, end |-> 1599]>>

\* E_NUMBER_RANGES, in the order Object.entries gives its keys
E_NUMBER_RANGES ==
  <<[key |-> "colors", start |-> 100, end |-> 199],
    [key |-> "preservatives", start |-> 200, end |-> 299],
    [key |-> "antioxidants", start |-> 300, end |-> 399],
    [key |-> "emulsifiers", start |-> 400, end |-> 499],
    [key |-> "stabilizers", start |-> 500, end |-> 599],
    [key |-> "flavorEnhancers", start |-> 600, end |-> 699],
    [key |-> "antibiotics", start |-> 700, end |-> 799],
    [key |-> "miscellaneous", start |-> 900, end |-> 999],
    [key |-> "additionalChemicals", start |-> 1000, end |-> 1599]>>

\* key.charAt(0).toUpperCase() + key.slice(1)
Capitalized ==
  [colors |-> "Colors", preservatives |-> "Preservatives", antioxidants |-> "Antioxidants",
   emulsifiers |-> "Emulsifiers", stabilizers |-> "Stabilizers",
   flavorEnhancers |-> "FlavorEnhancers", antibiotics |-> "Antibiotics",
   miscellaneous |-> "Miscellaneous", additionalChemicals |-> "AdditionalChemicals"]

\* The value of each decimal digit.
DigitValue ==
  ("0" :> 0) @@ ("1" :> 1) @@ ("2" :> 2) @@ ("3" :> 3) @@ ("4" :> 4) @@
  ("5" :> 5) @@ ("6" :> 6) @@ ("7" :> 7) @@ ("8" :> 8) @@ ("9" :> 9)

\* String.prototype.toUpperCase over the letters of the inputs
UpperCase == ("e" :> "E") @@ ("a" :> "A")

ToUpperCase(s) ==
  [i \in 1..Len(s) |-> IF s[i] \in DOMAIN UpperCase THEN UpperCase[s[i]] ELSE s[i]]

\* The longest prefix of s made of decimal digits.
RECURSIVE DigitPrefix(_)
DigitPrefix(s) ==
  IF s = <<>> \/ Head(s) \notin DOMAIN DigitValue THEN <<>>
  ELSE <<Head(s)>> \o DigitPrefix(Tail(s))

\* The number a string of decimal digits denotes.
RECURSIVE DecimalValue(_)
DecimalValue(digits) ==
  IF digits = <<>> THEN 0
  ELSE 10 * DecimalValue(SubSeq(digits, 1, Len(digits) - 1)) + DigitValue[digits[Len(digits)]]

NaN == [t |-> "NaN"]

\* parseInt(string): leading white space is skipped, the longest prefix of
\* decimal digits is read and what follows it is ignored; NaN when there is no
\* digit.  (The inputs of the model hold no sign and no "0x".)
ParseInt(s) ==
  IF DigitPrefix(TrimStart(s)) = <<>> THEN NaN
  ELSE Num(DecimalValue(DigitPrefix(TrimStart(s))))

\* for (const [key, range] of Object.entries(E_NUMBER_RANGES)) { if (...) {
\* category = ...; break; } } from entry i on; undefined when no range holds
\* the number.
RECURSIVE FindCategory(_, _)
FindCategory(i, number) ==
  IF i > Len(E_NUMBER_RANGES) THEN Undefined
  ELSE IF number >= E_NUMBER_RANGES[i].start /\ number <= E_NUMBER_RANGES[i].end
       THEN Str(Capitalized[E_NUMBER_RANGES[i].key])
       ELSE FindCategory(i + 1, number)

\* validateENumber once cleanInput, number and category are known
ValidationResult(cleanInput, number, category) ==
  IF cleanInput = <<>> \/ Head(cleanInput) # "E"
  THEN [isValid |-> FALSE, message |-> "E number must start with \"E\""]
  ELSE IF number = NaN
  THEN [isValid |-> FALSE, message |-> "Invalid E number format"]
  ELSE IF category = Undefined
  THEN [isValid |-> FALSE, message |-> "E number is out of valid range"]
  ELSE [isValid |-> TRUE, category |-> category.s,
        message |-> "Valid E number (" \o category.s \o ")"]

\* The category of parseInt's number (undefined for NaN, which no range holds).
CategoryOf(number) == IF number = NaN THEN Undefined ELSE FindCategory(1, number.n)

\* String.prototype.substring(start)
Substring(s, start) == SubSeq(s, start + 1, Len(s))

\* validateENumber(input)
validateENumber(input) ==
  ValidationResult(Trim(ToUpperCase(input)),
                   ParseInt(Substring(Trim(ToUpperCase(input)), 1)),
                   CategoryOf(ParseInt(Substring(Trim(ToUpperCase(input)), 1))))

\* isValidENumber(input)
isValidENumber(input) == validateENumber(input).isValid

\* The inputs of the validator: white space or nothing, then E, e, a or
\* nothing, then up to MaxDigits digits, then a, white space or nothing.
ENumberDigits == {"0", "1", "5", "6", "7", "8", "9"}

ENumberInputs ==
  {lead \o head \o digits \o rest :
     lead \in {<<>>, <<" ">>}, head \in {<<>>, <<"E">>, <<"e">>, <<"a">>},
     digits \in UNION {[1..k -> ENumberDigits] : k \in 0..MaxDigits},
     rest \in {<<>>, <<"a">>, <<"a", "5">>, <<" ">>}}

ENumberInit ==
  /\ ServerInit
  /\ nSchema = "eNumber"
  /\ nIn \in {Str(input) : input \in ENumberInputs}
  /\ nOut = None
  /\ nAgain = None
  /\ nPc = "input"

\* The form calls validateENumber(input); callers of isValidENumber get its
\* verdict alone.
CheckENumber ==
  /\ nPc = "input"
  /\ nSchema = "eNumber"
  /\ nOut' = validateENumber(nIn.s)
  /\ nAgain' = Bool(isValidENumber(nIn.s))
  /\ nPc' = "validated"
  /\ UNCHANGED <<nIn, nSchema, serverVars>>

ENumberNext == CheckENumber

SpecENumber == ENumberInit /\ [][ENumberNext]_vars

\* ------------------------------------------------------------- pipeline
\* The create schemas on their own: a raw record is validated, and the record
\* validation produced is validated once more.
NormStrings == {Str(s) : s \in StringsUpTo(MaxStrLen)}

NormProductValues ==
  [name |-> NormStrings,
   sku |-> NormStrings \cup {Null},
   kcal |-> {Num(120), Str(<<" ", "a">>)},
   organic |-> {Bool(TRUE), Bool(FALSE)},
   vegetarian |-> {Bool(TRUE)},
   vegan |-> {Bool(TRUE)}]

NormIngredientValues ==
  [name |-> NormStrings,
   e_number |-> NormStrings \cup {Null},
   category |-> {Str(<<"a", " ">>)},
   allergens |-> {Arr(<<>>), Arr(<<Str(<<" ", "a">>)>>), Str(<<"a", ",", " ", "b">>), Null},
   details |-> {Null}]

NormBodies(schema) ==
  IF schema = "product" THEN Bodies(NormProductValues) ELSE Bodies(NormIngredientValues)

ApplySchema(schema, data) ==
  IF schema = "product" THEN insertProductSchema(data) ELSE insertIngredientSchema(data)

NormInit ==
  /\ ServerInit
  /\ nSchema \in {"product", "ingredient"}
  /\ nIn \in NormBodies(nSchema)
  /\ nOut = None
  /\ nAgain = None
  /\ nPc = "input"

\* schema.safeParse(input)
Validate ==
  /\ nPc = "input"
  /\ nOut' = ApplySchema(nSchema, nIn)
  /\ nPc' = "validated"
  /\ UNCHANGED <<nIn, nSchema, nAgain, serverVars>>

\* schema.safeParse(result.data) on the record the first pass produced
Revalidate ==
  /\ nPc = "validated"
  /\ nOut.success
  /\ nAgain' = ApplySchema(nSchema, nOut.data)
  /\ nPc' = "revalidated"
  /\ UNCHANGED <<nIn, nSchema, nOut, serverVars>>

NormNext == Validate \/ Revalidate

SpecNorm == NormInit /\ [][NormNext]_vars

\* ============================================================= properties
ProductTextColumns == Range(ProductTextBefore) \cup Range(ProductTextAfter)

IngredientTextColumns == {"category", "e_number", "details"}

NutritionColumns == {"kcal", "kj", "fat", "carbohydrates"}

AllergenHeaders == {"allergens", "Allergens", "ALLERGENS"}

\* A non-empty string with no white space at either end.
TrimmedText(v) == v.t = "string" /\ v.s # <<>> /\ Trim(v.s) = v.s

\* "" or white space only
BlankString(x) == x.t = "string" /\ Trim(x.s) = <<>>

\* undefined, null, "" or white space only
BlankInput(x) == x = Undefined \/ x = Null \/ (x.t = "string" /\ Trim(x.s) = <<>>)

Without(obj, keys) == [k \in DOMAIN obj \ keys |-> obj[k]]

\* C1: whatever product requests were handled, every stored product has a
\* trimmed non-empty name, every other text column is null or a trimmed
\* non-empty string, and the three flags are booleans.
C1_StoredProductsNormalized ==
  \A id \in DOMAIN products :
    /\ TrimmedText(products[id]["name"])
    /\ \A c \in ProductTextColumns :
         products[id][c] = Null \/ TrimmedText(products[id][c])
    /\ \A f \in Range(ProductFlags) : products[id][f].t = "boolean"

\* C1's case: a stored product that a create put there and an update, with
\* white space around a value, then changed.
C1_Witness ==
  /\ req.op = "PUT /api/products/:id"
  /\ resp.status = 200
  /\ "sku" \in DOMAIN req.body
  /\ req.body["sku"] # products[req.id]["sku"]

\* C2: a step of PUT /api/products/:id leaves every column that the body
\* does not name, of every stored product, as it was.
C2_ProductUpdateFrame ==
  [][req'.op = "PUT /api/products/:id" =>
       /\ DOMAIN products' = DOMAIN products
       /\ \A id \in DOMAIN products : \A c \in DOMAIN products[id] :
            (id # req'.id \/ c \notin DOMAIN req'.body) =>
              products'[id][c] = products[id][c]]_vars

\* C2's case: an update that succeeded, changed the row, and omitted a column
\* whose stored value is not the column's default.
C2_Witness ==
  /\ req.op = "PUT /api/products/:id"
  /\ resp.status = 200
  /\ "organic" \in DOMAIN req.body
  /\ products[req.id]["organic"] = Bool(TRUE)
  /\ "sku" \notin DOMAIN req.body
  /\ products[req.id]["sku"] # Null

\* C3: a step of PUT /api/ingredients/:id on a stored ingredient the gateway
\* can reach accepts a body whatever it omits, and leaves every column the
\* body does not name as it was.
C3_IngredientUpdateFrame ==
  [][(/\ req'.op = "PUT /api/ingredients/:id"
      /\ req'.id \in DOMAIN ingredients
      /\ resp'.status \notin {400, 404}
      /\ \A i \in 1..Len(calls') : calls'[i].op = "update" =>
           resp'.status = 200)
     => /\ resp'.status = 200
        /\ \A c \in IngredientColumns \ DOMAIN req'.body :
             ingredients'[req'.id][c] = ingredients[req'.id][c]]_vars

\* C4: in the record a create schema produces, an optional text field is null
\* when the input is "", white space, undefined (the key is omitted) or null,
\* and the trimmed input for any other string.
C4_OptionalTextNormalized ==
  (nPc # "input" /\ nOut.success) =>
    \A f \in (IF nSchema = "product" THEN ProductTextColumns ELSE IngredientTextColumns) :
      IF BlankInput(Get(nIn, f))
      THEN Get(nOut.data, f) = Null
      ELSE Get(nOut.data, f) = Str(Trim(nIn[f].s))

\* C5: a create whose name is "" or white space is answered 400 with a
\* validation error on the field "name"; a create that is accepted stores and
\* returns the trimmed name.
C5_BlankNameRejected ==
  /\ (req.op = "POST /api/products" /\ BlankString(Get(req.body, "name"))) =>
       /\ resp.status = 400
       /\ \E i \in 1..Len(resp.body.details.a) : resp.body.details.a[i].field = "name"
  /\ (req.op = "POST /api/ingredients" /\ BlankString(Get(req.body, "name"))) =>
       /\ resp.status = 400
       /\ \E i \in 1..Len(resp.body.details.errors.a) :
            resp.body.details.errors.a[i].path = "name"
  /\ (req.op = "POST /api/products" /\ resp.status = 201) =>
       /\ resp.body["name"] = Str(Trim(req.body["name"].s))
       /\ products[resp.body["id"].n]["name"] = resp.body["name"]
  /\ (req.op = "POST /api/ingredients" /\ resp.status = 201) =>
       /\ resp.body["name"] = Str(Trim(req.body["name"].s))
       /\ ingredients[resp.body["id"].n]["name"] = resp.body["name"]

\* C5's case: a product create with a white-space name, answered 400.
C5_Witness ==
  /\ req.op = "POST /api/products"
  /\ Get(req.body, "name") = Str(<<" ">>)
  /\ resp.status = 400

\* C6: the ingredient create schema accepts a comma-separated string as
\* allergens and produces the list of its trimmed pieces.
C6_AllergenStringSplit ==
  (/\ nSchema = "ingredient"
   /\ nPc # "input"
   /\ Get(nIn, "allergens").t = "string"
   /\ insertIngredientSchema(Without(nIn, {"allergens"})).success)
  => /\ nOut.success
     /\ nOut.data["allergens"] = TrimPieces(SplitComma(nIn["allergens"].s))

\* C7: the product create schema accepts a number or a string in a nutrition
\* field and produces the number's string form, the trimmed string, or null
\* for a blank string.
C7_NutritionAcceptsNumber ==
  (/\ nSchema = "product"
   /\ nPc # "input"
   /\ insertProductSchema(Without(nIn, NutritionColumns)).success)
  => \A f \in NutritionColumns \cap DOMAIN nIn :
       nIn[f].t \in {"number", "string"} =>
         /\ nOut.success
         /\ nOut.data[f] = nutritionField(nIn[f]).v

\* C8: every ingredient record handed to the gateway by a create, an update
\* or an import carries a list as allergens, the empty list when the input
\* had no allergens.
C8_AllergensAlwaysList ==
  \A i \in 1..Len(calls) :
    (calls[i].table = "ingredients" /\ calls[i].op \in {"insert", "update"}) =>
      /\ "allergens" \in DOMAIN calls[i].data
      /\ calls[i].data["allergens"].t = "array"
      /\ (req.op \in {"POST /api/ingredients", "PUT /api/ingredients/:id"}
          /\ "allergens" \notin DOMAIN req.body)
         => calls[i].data["allergens"] = Arr(<<>>)
      /\ (req.op = "POST /api/ingredients/import"
          /\ \A k \in 1..Len(req.rows) : DOMAIN req.rows[k] \cap AllergenHeaders = {})
         => calls[i].data["allergens"] = Arr(<<>>)

\* C8's case: an ingredient create without allergens that reached the gateway.
C8_Witness ==
  /\ req.op = "POST /api/ingredients"
  /\ "allergens" \notin DOMAIN req.body
  /\ resp.status = 201
  /\ calls[1].data["allergens"] = Arr(<<>>)

\* C9: in the record the product create schema produces, a flag the input
\* omits is false and a flag the input gives is kept.
C9_FlagsDefaultFalse ==
  (nSchema = "product" /\ nPc # "input" /\ nOut.success) =>
    \A f \in Range(ProductFlags) :
      IF f \in DOMAIN nIn THEN nOut.data[f] = nIn[f]
      ELSE f \in DOMAIN nOut.data /\ nOut.data[f] = Bool(FALSE)

\* C9's case: {organic: true} with vegetarian and vegan omitted.
C9_Witness ==
  /\ nSchema = "product"
  /\ nPc = "validated"
  /\ DOMAIN nIn = {"name", "organic"}
  /\ nIn["organic"] = Bool(TRUE)
  /\ nOut.success
  /\ nOut.data["organic"] = Bool(TRUE)
  /\ nOut.data["vegetarian"] = Bool(FALSE)
  /\ nOut.data["vegan"] = Bool(FALSE)

\* C10: validating the record a successful create validation produced
\* succeeds and produces the same record.
C10_NormalizationIdempotent ==
  nPc = "revalidated" => (nAgain.success /\ nAgain.data = nOut.data)

\* C10's case: a second pass over a record the first pass had changed (a
\* string trimmed or nulled, a default filled in).
C10_Witness ==
  /\ nPc = "revalidated"
  /\ nAgain.success
  /\ \E k \in DOMAIN nIn : nIn[k].t = "string" /\ nOut.data[k] # nIn[k]
  /\ DOMAIN nOut.data # DOMAIN nIn

\* The keys of the shape whose own validator rejects the body's value.
FailingFields(shape, body) ==
  {shape[i].key : i \in {j \in 1..Len(shape) :
                           ~ParseField(shape[j].kind, Get(body, shape[j].key)).ok}}

RequestShape(op) ==
  IF op = "POST /api/products" THEN InsertProductShape ELSE PartialProductShape

\* C11: when fields of a product create or update break their rules, the
\* answer is 400 and its details hold an entry, with field, message and code,
\* for every failing field, and for no other.
C11_FailSlow ==
  (/\ req.op \in {"POST /api/products", "PUT /api/products/:id"}
   /\ FailingFields(RequestShape(req.op), req.body) # {})
  => /\ resp.status = 400
     /\ resp.body.details.t = "array"
     /\ {resp.body.details.a[i].field : i \in 1..Len(resp.body.details.a)}
          = FailingFields(RequestShape(req.op), req.body)
     /\ \A i \in 1..Len(resp.body.details.a) :
          {"field", "message", "code"} \subseteq DOMAIN resp.body.details.a[i]

\* C11's case: a product request with two failing fields, both reported.
C11_Witness ==
  /\ req.op \in {"POST /api/products", "PUT /api/products/:id"}
  /\ Cardinality(FailingFields(RequestShape(req.op), req.body)) >= 2
  /\ resp.status = 400
  /\ Len(resp.body.details.a) >= 2

\* C12: a validation failure of POST or PUT /api/ingredients is answered 400
\* with details that are a list of entries carrying field and message, as the
\* product routes answer.
C12_IngredientErrorShape ==
  (/\ req.op \in {"POST /api/ingredients", "PUT /api/ingredients/:id"}
   /\ resp.status = 400)
  => /\ resp.body.details.t = "array"
     /\ \A i \in 1..Len(resp.body.details.a) :
          {"field", "message"} \subseteq DOMAIN resp.body.details.a[i]

\* C13: a DELETE of a product or an ingredient whose row existed and is gone
\* is answered 204; a DELETE of an id that has no row is answered 404.
C13_DeleteStatus ==
  [][/\ req'.op = "DELETE /api/products/:id" =>
          IF req'.id \in DOMAIN products
          THEN req'.id \notin DOMAIN products' => resp'.status = 204
          ELSE resp'.status = 404
     /\ req'.op = "DELETE /api/ingredients/:id" =>
          IF req'.id \in DOMAIN ingredients
          THEN req'.id \notin DOMAIN ingredients' => resp'.status = 204
          ELSE resp'.status = 404]_vars

\* C14: a PUT /api/ingredients/:id for an id that has no row is answered 404
\* whatever the body is, makes no update call and changes no ingredient.
C14_ExistenceBeforeValidation ==
  [][(req'.op = "PUT /api/ingredients/:id" /\ req'.id \notin DOMAIN ingredients)
     => /\ resp'.status = 404
        /\ \A i \in 1..Len(calls') : calls'[i].op # "update"
        /\ ingredients' = ingredients]_vars

\* C14's case: an update of a missing ingredient whose body would not pass
\* validation, answered 404.
C14_Witness ==
  /\ req.op = "PUT /api/ingredients/:id"
  /\ req.id \notin DOMAIN ingredients
  /\ ~partialIngredientSchema(WithAllergens(req.body)).success
  /\ resp.status = 404

CrudRoutes ==
  {"GET /api/products", "GET /api/products/:id", "POST /api/products",
   "PUT /api/products/:id", "DELETE /api/products/:id",
   "GET /api/ingredients", "GET /api/ingredients/:id", "POST /api/ingredients",
   "PUT /api/ingredients/:id", "DELETE /api/ingredients/:id"}

\* C15: when a gateway call of a list, get, create, update or delete route
\* fails, the request is answered 500 and the failed call is the last one
\* made (no retry).
C15_GatewayFailureIs500 ==
  (req.op \in CrudRoutes /\ \E i \in 1..Len(calls) : ~calls[i].ok)
  => /\ resp.status = 500
     /\ \A i \in 1..Len(calls) : ~calls[i].ok => i = Len(calls)

BulkImports == {"POST /api/products/import", "POST /api/ingredients/import"}

\* C16: a request that is not a bulk import makes at most one call to the
\* gateway.
C16_OneGatewayCall ==
  req.op \notin BulkImports => Len(calls) <= 1

NameHeaders == {"name", "Name", "NAME"}

\* The records an import's response returns.
ImportedRecords(request, response) ==
  IF request.op = "POST /api/products/import" THEN response.body.products
  ELSE response.body.ingredients

\* The reasons a row's error string can give.
RowReasons == {"Name is required", GatewayError, "Expected array, received number"}

\* The error strings name rows of the sheet in rising order.
InRowOrder(errors, n) ==
  \E f \in [1..Len(errors) -> 1..n] :
    /\ \A j \in 1..(Len(errors) - 1) : f[j] < f[j + 1]
    /\ \A j \in 1..Len(errors) :
         \E reason \in RowReasons :
           errors[j] = "Row " \o ToString(f[j] + 1) \o ": " \o reason

\* C17: an import of N data rows reports imported = the number of records
\* returned and imported + the number of error strings = N; the row at
\* 0-based index i without a name gives exactly the one error string
\* "Row (i+2): Name is required"; the error strings are in row order.
C17_ImportCounts ==
  (req.op \in BulkImports /\ req.file = "sheet") =>
    /\ resp.status = 200
    /\ resp.body.imported = Len(ImportedRecords(req, resp))
    /\ resp.body.imported + Len(resp.body.errors) = Len(req.rows)
    /\ \A i \in 0..(Len(req.rows) - 1) :
         DOMAIN req.rows[i + 1] \cap NameHeaders = {} =>
           Cardinality({j \in 1..Len(resp.body.errors) :
                          resp.body.errors[j]
                            = "Row " \o ToString(i + 2) \o ": Name is required"}) = 1
    /\ InRowOrder(resp.body.errors, Len(req.rows))

\* C17's case: three valid rows, then a row without a name.
C17_Witness ==
  /\ req.op = "POST /api/products/import"
  /\ req.file = "sheet"
  /\ Len(req.rows) = 4
  /\ \A k \in 1..3 : req.rows[k] = [Name |-> Str(<<"b">>)]
  /\ DOMAIN req.rows[4] \cap NameHeaders = {}
  /\ resp.body.imported = 3
  /\ resp.body.errors = <<"Row 5: Name is required">>

\* Whether the row loop hands the row to the gateway: it has a name and
\* passes the create schema.
ProductRowPasses(row) ==
  Truthy(ProductRowData(row)["name"]) /\ insertProductSchema(ProductRowData(row)).success

IngredientRowPasses(row) ==
  Truthy(IngredientRowData(row)["name"])
  /\ insertIngredientSchema(IngredientRowData(row)).success

\* The ids of the returned records are the next serials, in order, and each
\* returned record is the stored row.
PersistedInOrder(records, table, nextId) ==
  \A j \in 1..Len(records) :
    /\ records[j]["id"] = Num(nextId + j - 1)
    /\ nextId + j - 1 \in DOMAIN table
    /\ table[nextId + j - 1] = records[j]

\* C18: a row that fails (no name, validation, gateway) does not end the
\* import: the answer is 200, every row that passes the checks is handed to
\* the gateway once, in row order, the rows stored before stay stored, and
\* the rows the gateway took are stored under rising ids.
C18_ImportRowFailureNonFatal ==
  [][/\ (req'.op = "POST /api/products/import" /\ req'.file = "sheet") =>
          /\ resp'.status = 200
          /\ Len(calls') = Cardinality({k \in 1..Len(req'.rows) :
                                          ProductRowPasses(req'.rows[k])})
          /\ \A id \in DOMAIN products :
               id \in DOMAIN products' /\ products'[id] = products[id]
          /\ PersistedInOrder(resp'.body.products, products', nextProductId)
          /\ Len(resp'.body.products)
               = Cardinality({i \in 1..Len(calls') : calls'[i].ok})
     /\ (req'.op = "POST /api/ingredients/import" /\ req'.file = "sheet") =>
          /\ resp'.status = 200
          /\ Len(calls') = Cardinality({k \in 1..Len(req'.rows) :
                                          IngredientRowPasses(req'.rows[k])})
          /\ \A id \in DOMAIN ingredients :
               id \in DOMAIN ingredients' /\ ingredients'[id] = ingredients[id]
          /\ PersistedInOrder(resp'.body.ingredients, ingredients', nextIngredientId)
          /\ Len(resp'.body.ingredients)
               = Cardinality({i \in 1..Len(calls') : calls'[i].ok})]_vars

\* C18's case: the first row's insert fails at the gateway, the second row
\* has no name, the third fails validation and the fourth is stored.
C18_Witness ==
  /\ req.op = "POST /api/products/import"
  /\ req.file = "sheet"
  /\ Len(req.rows) = 4
  /\ resp.status = 200
  /\ resp.body.imported = 1
  /\ resp.body.errors = <<"Row 2: upstream error", "Row 3: Name is required",
                          "Row 4: Name is required">>
  /\ req.rows[3] = [Name |-> Str(<<" ">>)]
  /\ ProductRowPasses(req.rows[4])
  /\ products # <<>>

\* The sheet column read into each product field (Wine Type is also read
\* from a column named Type).
ImportedColumns ==
  [name |-> {"Name"}, vintage |-> {"Vintage"}, appellation |-> {"Appellation"},
   sku |-> {"SKU"}, net_volume |-> {"Net Volume"}, wine_type |-> {"Wine Type", "Type"},
   sugar_content |-> {"Sugar Content"}]

\* The record carries, in every mapped field, the value of the row's column.
CarriesRow(record, row) ==
  \A f \in DOMAIN ImportedColumns :
    \A h \in ImportedColumns[f] \cap DOMAIN row : record[f] = Str(Trim(row[h].s))

\* C19: every record a product import persists carries, in name, net_volume,
\* vintage, wine_type, sugar_content, appellation and sku, the values of the
\* columns of the row it was mapped from.
C19_ImportKeepsMappedColumns ==
  (req.op = "POST /api/products/import" /\ req.file = "sheet") =>
    \A j \in 1..Len(resp.body.products) :
      \E k \in 1..Len(req.rows) :
        ProductRowPasses(req.rows[k]) /\ CarriesRow(resp.body.products[j], req.rows[k])

\* The column of the table each column of an export sheet is to hold.
ProductExportColumn ==
  [Name |-> "name", Vintage |-> "vintage", Type |-> "wine_type",
   Appellation |-> "appellation", SKU |-> "sku"]
  @@ ("Net Volume" :> "net_volume") @@ ("Sugar Content" :> "sugar_content")

IngredientExportColumn ==
  [Name |-> "name", Category |-> "category", Details |-> "details"]
  @@ ("E Number" :> "e_number")

\* The cell holds the stored value: no cell for null.
CellHolds(row, header, value) ==
  IF value = Null THEN header \notin DOMAIN row
  ELSE header \in DOMAIN row /\ row[header] = value

\* C20: each row of an export holds the stored values of its record in its
\* columns: name, net volume, vintage, wine type, sugar content, appellation
\* and SKU of a product; name, category, E-number, allergens and details of
\* an ingredient.
C20_ExportHoldsStoredValues ==
  /\ (req.op = "GET /api/products/export" /\ resp.status = 200) =>
       \A i \in 1..Len(req.ids) :
         \A h \in DOMAIN ProductExportColumn :
           CellHolds(resp.body[i], h, products[req.ids[i]][ProductExportColumn[h]])
  /\ (req.op = "GET /api/ingredients/export" /\ resp.status = 200
      /\ \A i \in 1..Len(calls) : calls[i].ok) =>
       /\ Len(resp.body) = Len(req.ids)
       /\ \A i \in 1..Len(req.ids) :
            /\ \A h \in DOMAIN IngredientExportColumn :
                 CellHolds(resp.body[i], h,
                           ingredients[req.ids[i]][IngredientExportColumn[h]])
            /\ ingredients[req.ids[i]]["allergens"].t = "array" =>
                 resp.body[i]["Allergens"]
                   = Str(JoinComma(ingredients[req.ids[i]]["allergens"].a))

\* C21: when POST /api/products/:id/image received a file, the temporary file
\* multer wrote for it is gone from the uploads directory once the response
\* is sent, whatever the outcome (stored, upload failed, no such product,
\* product lookup failed).
C21_TemporaryFileRemoved ==
  (req.op = "POST /api/products/:id/image" /\ req.file) => clock \notin uploads

\* The product has an image.
HasImage(product) == product["image_url"] # Null

\* C22: DELETE /api/products/:id/image on a product that has an image, carried
\* out by a working gateway, answers with {success, imageUrl} and leaves the
\* product's image_url null.
C22_ImageDeleteClearsUrl ==
  [][\A id \in DOMAIN products :
       (HasImage(products[id]) /\ HandleDeleteProductImage(id, TRUE, TRUE)) =>
         /\ resp'.status = 200
         /\ DOMAIN resp'.body = {"success", "imageUrl"}
         /\ products'[id]["image_url"] = Null]_vars

\* C23: a flag (organic, vegetarian, vegan) a product create supplies is not
\* validated: whatever its value, it raises no validation error and goes
\* unchanged into the record the schema produces.
C23_FlagsNotValidated ==
  (/\ req.op = "POST /api/products"
   /\ insertProductSchema(Without(req.body, Range(ProductFlags))).success)
  => /\ resp.status # 400
     /\ \A f \in Range(ProductFlags) \cap DOMAIN req.body :
          calls[1].data[f] = req.body[f]

\* The list with every element trimmed, in the same order.
TrimmedElements(list) == Arr([i \in 1..Len(list.a) |-> Str(Trim(list.a[i].s))])

\* C24: when an ingredient create supplies a list of allergens, the record the
\* schema produces holds the same list with every element trimmed.
C24_AllergenElementsTrimmed ==
  (/\ nSchema = "ingredient"
   /\ nPc # "input"
   /\ Get(nIn, "allergens").t = "array"
   /\ nOut.success)
  => nOut.data["allergens"] = TrimmedElements(nIn["allergens"])

\* The values the form helper takes: undefined, null and strings.
FormText(v) == v.t \in {"undefined", "null", "string"}

\* C25: for every optional text field of a product create that is undefined,
\* null or a string, the form helper transformEmptyToNull gives the value the
\* server stores for it: null for undefined, null and blank strings, the
\* trimmed string otherwise.
C25_FormHelperMirrorsServer ==
  (nSchema = "product" /\ nPc # "input" /\ nOut.success) =>
    \A f \in ProductTextColumns :
      FormText(Get(nIn, f)) =>
        transformEmptyToNull(Get(nIn, f)) = InsertedRow(ProductColumns, 1, nOut.data)[f]

\* C25's case: an input with white space around its text, one absent field
\* and one more field that is null or blank.
C25_Witness ==
  /\ nSchema = "product"
  /\ nPc = "validated"
  /\ nOut.success
  /\ Get(nIn, "sku") = Str(<<" ", "a", " ">>)
  /\ InsertedRow(ProductColumns, 1, nOut.data)["sku"] = Str(<<"a">>)
  /\ transformEmptyToNull(Get(nIn, "sku")) = Str(<<"a">>)
  /\ Get(nIn, "brand") = Undefined
  /\ InsertedRow(ProductColumns, 1, nOut.data)["brand"] = Null

\* input.trim().toUpperCase() of the input under validation
CleanInput == Trim(ToUpperCase(nIn.s))

\* The categories the ingredient form lists, each with its range.
DocumentedRanges ==
  {<<100, 199, "Colors">>, <<200, 299, "Preservatives">>, <<300, 399, "Antioxidants">>,
   <<400, 499, "Emulsifiers">>, <<500, 599, "Stabilizers">>,
   <<600, 699, "FlavorEnhancers">>, <<700, 799, "Antibiotics">>,
   <<900, 999, "Miscellaneous">>, <<1000, 1599, "AdditionalChemicals">>}

\* The clean input is E followed by a decimal integer.
IsEThenInteger(clean) ==
  /\ Len(clean) >= 2
  /\ Head(clean) = "E"
  /\ \A i \in 2..Len(clean) : clean[i] \in DOMAIN DigitValue

C27_MalformedENumberRejected ==
  (nSchema = "eNumber" /\ nPc = "validated" /\ ~IsEThenInteger(CleanInput)) =>
    ~nOut.isValid

\* The calls of the log that write: insert, update, delete.
WriteCalls(log) == {i \in 1..Len(log) : log[i].op \in {"insert", "update", "delete"}}

\* The body of the create or update request fails its route's schema.
FailsValidation(request) ==
  CASE request.op = "POST /api/products" -> ~insertProductSchema(request.body).success
    [] request.op = "PUT /api/products/:id" -> ~partialProductSchema(request.body).success
    [] request.op = "POST /api/ingredients" -> ~insertIngredientSchema(request.body).success
    [] request.op = "PUT /api/ingredients/:id" ->
         ~partialIngredientSchema(WithAllergens(request.body)).success
    [] OTHER -> FALSE

\* C28: a create or update request whose body fails validation is not
\* answered with success, makes no write call on the gateway and leaves the
\* stored products and ingredients as they were; an import makes one write
\* call for each row that passes validation and none for a row that fails it.
C28_InvalidRequestWritesNothing ==
  [][/\ FailsValidation(req') =>
          /\ resp'.status \in {400, 404, 500}
          /\ WriteCalls(calls') = {}
          /\ products' = products
          /\ ingredients' = ingredients
     /\ (req'.op = "POST /api/products/import" /\ req'.file = "sheet") =>
          Cardinality(WriteCalls(calls'))
            = Cardinality({k \in 1..Len(req'.rows) : ProductRowPasses(req'.rows[k])})
     /\ (req'.op = "POST /api/ingredients/import" /\ req'.file = "sheet") =>
          Cardinality(WriteCalls(calls'))
            = Cardinality({k \in 1..Len(req'.rows) : IngredientRowPasses(req'.rows[k])})]_vars

\* C28's case: an update of a stored product is refused with 400.
C28_Witness ==
  /\ req.op = "PUT /api/products/:id"
  /\ req.id \in DOMAIN products
  /\ FailsValidation(req)
  /\ resp.status = 400
  /\ WriteCalls(calls) = {}

\* C29: whatever image uploads, image deletes and product deletes were
\* handled, every blob of the product-images bucket is the one the image_url
\* of a stored product refers to.
C29_NoOrphanBlob ==
  \A key \in blobs : \E id \in DOMAIN products : products[id]["image_url"] = PublicUrl(key)

\* The record the request of a client updates.
UpdatedRecord(request) ==
  IF request.op = "PUT /api/products/:id" THEN products[request.id]
  ELSE ingredients[request.id]

\* The value the request writes in a field it supplies.
WrittenValue(request, field) ==
  IF request.op = "PUT /api/products/:id"
  THEN partialProductSchema(request.body).data[field]
  ELSE partialIngredientSchema(WithAllergens(request.body)).data[field]

\* C30: when two concurrent updates of one record supply disjoint sets of
\* fields, then, both requests done, the record holds in each supplied field
\* the value its request wrote, whatever the order of the steps; for
\* products and for ingredients.
C30_NoLostUpdate ==
  (\A c \in Clients : req[c].pc = "done") =>
    \A c \in Clients :
      \A f \in DOMAIN req[c].body : UpdatedRecord(req[c])[f] = WrittenValue(req[c], f)

====
